---- MODULE Spec2Model ----
(***************************************************************************)
(* ML-KEM (FIPS 203) as implemented by the kyber-project repository:       *)
(* the K-PKE scheme, the ML-KEM wrapper with implicit rejection, the       *)
(* codecs, the ring arithmetic and the samplers, with the caller of the    *)
(* three entry points (keygen / encaps / decaps) as the state machine.     *)
(*                                                                         *)
(* Byte strings are sequences over 0..255 (index 1 is Python index 0).     *)
(* Polynomials are functions over 0..N-1, as the Python lists are.         *)
(* Python integers are unbounded; every product below is < 2^31, and the   *)
(* one triple product of the source (base_case_multiply) is reduced        *)
(* between its two multiplications, which leaves its residue unchanged.    *)
(***************************************************************************)
EXTENDS Integers, Sequences, FiniteSets, TLC

(***************************************************************************)
(* Bounds of the model (not program constants).                            *)
(***************************************************************************)
\* the randomness oracle is one of the tapes 0..MaxTape
MaxTape == 0
\* the oracle delivers at most MaxReads 32-byte reads in one session
MaxReads == 3
\* the pseudo-random polynomials given to the transforms are 0..MaxPolySeed
MaxPolySeed == 7
\* the pseudo-random arrays and byte strings given to the codecs are 0..MaxCodecSeed
MaxCodecSeed == 1
\* the pseudo-random 32-byte messages are 0..MaxMessageSeed
MaxMessageSeed == 29
\* the K-PKE key-generation seeds are 0..MaxPkeSeed
MaxPkeSeed == 5
\* the byte strings given to constant_time_compare have 0..MaxCompareLen bytes
MaxCompareLen == 2
\* one XOF object is squeezed at most MaxSqueezes times
MaxSqueezes == 2
\* the polynomials given to compress_to_message start at 0..MaxShift
MaxShift == 3328
\* seeds rho of the sample_ntt calls
MaxSampleSeed == 2
\* 3-byte groups of a SHAKE-128 stream that are looked at
MaxGroups == 256

(***************************************************************************)
(* pke/params.py                                                           *)
(***************************************************************************)
N == 256
Q == 3329
ZETA == 17

ML_KEM_512 == [name |-> "ML-KEM-512", k |-> 2, eta1 |-> 3, eta2 |-> 2, du |-> 10, dv |-> 4, security_category |-> 1]
ML_KEM_768 == [name |-> "ML-KEM-768", k |-> 3, eta1 |-> 2, eta2 |-> 2, du |-> 10, dv |-> 4, security_category |-> 3]
ML_KEM_1024 == [name |-> "ML-KEM-1024", k |-> 4, eta1 |-> 2, eta2 |-> 2, du |-> 11, dv |-> 5, security_category |-> 5]
PARAMETER_SETS == {ML_KEM_512, ML_KEM_768, ML_KEM_1024}

pk_bytes(params) == 384 * params.k + 32
\* a variant that counts the K-PKE secret key only
sk_bytes_pke_only(params) == 384 * params.k
sk_bytes(params) == 768 * params.k + 96
ct_bytes(params) == 32 * (params.du * params.k + params.dv)
ss_bytes(params) == 32

(***************************************************************************)
(* Generic helpers: forcing of a lazily built function, powers of two,     *)
(* Python slices, Python's round() of a quotient.                          *)
(***************************************************************************)
\* the value f, with every element computed when it is first compared
\* (a function expression is otherwise re-evaluated at each application)
Force(f) == IF f = f THEN f ELSE f
\* a local name for a value: body(v) with v computed once
Bind(v, body(_)) == body(v)

Pow2(n) == 2 ^ n

\* Python  b[lo:hi]  on a byte string (0-based, hi exclusive, clipped)
Slice(b, lo, hi) ==
  LET h == IF hi > Len(b) THEN Len(b) ELSE hi
  IN IF lo >= h THEN <<>> ELSE SubSeq(b, lo + 1, h)

\* Python  round(num / den)  for num >= 0, den > 0: nearest integer, ties to even
PyRound(num, den) ==
  LET fl == num \div den
      r2 == 2 * (num % den)
  IN IF r2 < den THEN fl
     ELSE IF r2 > den THEN fl + 1
     ELSE IF fl % 2 = 0 THEN fl ELSE fl + 1

Bytes(n, v) == [i \in 1..n |-> v]

(***************************************************************************)
(* utils/hash_utils.py.  hashlib's SHA-3 functions are outside the          *)
(* repository; they are modelled as four deterministic, domain-separated   *)
(* functions of the absorbed byte string.  A SHAKE output of n bytes is a  *)
(* prefix of the output of m > n bytes, as for the real functions.          *)
(***************************************************************************)
AbsorbWeight(i) == ((i * i + 7 * i + 3) % 9973) + 1

RECURSIVE AbsorbSum(_, _, _)
AbsorbSum(data, lo, hi) ==
  IF lo > hi THEN 0
  ELSE IF lo = hi THEN (AbsorbWeight(lo) * (data[lo] + 1)) % 32749
  ELSE LET mid == (lo + hi) \div 2
       IN (AbsorbSum(data, lo, mid) + AbsorbSum(data, mid + 1, hi)) % 32749

Absorb(tag, data) ==
  (tag * 1009 + Len(data) * 131 + AbsorbSum(data, 1, Len(data))) % 32749

SqueezeByte(st, i) ==
  LET a == (st * 31 + i * 17 + 150) % 32749
      b == (a * a + i + 12345) % 32749
      c == (b * b + a) % 32749
  IN (c \div 5) % 256

KeccakStream(tag, data, n) ==
  LET st == Absorb(tag, data)
  IN [i \in 1..n |-> SqueezeByte(st, i)]

sha3_256(data) == KeccakStream(1, data, 32)
sha3_512(data) == KeccakStream(2, data, 64)
shake128(data, outlen) == KeccakStream(3, data, outlen)
shake256(data, outlen) == KeccakStream(4, data, outlen)

H(s) == sha3_256(s)
\* a variant that hashes with SHA3-256 where J is SHAKE256
J_sha3_256(s) == sha3_256(s)
J(s) == shake256(s, 32)
G(c) == sha3_512(c)

PRF_raises(eta, s, b) == eta \notin {2, 3} \/ Len(s) /= 32 \/ Len(b) /= 1
PRF(eta, s, b) == shake256(s \o b, 64 * eta)

\* class XOF: __init__ absorbs rho || i || j into a hashlib.shake_128 object
XOF_raises(rho, i, j) == Len(rho) /= 32 \/ i \notin 0..255 \/ j \notin 0..255
XOF(rho, i, j) == [shake |-> Absorb(3, rho \o <<i, j>>)]
\* XOF.squeeze: hashlib's digest(length) is the first `length` bytes of the
\* stream on every call; the object keeps no read position
squeeze(xof, length) == [i \in 1..length |-> SqueezeByte(xof.shake, i)]

(***************************************************************************)
(* utils/serialization.py                                                  *)
(***************************************************************************)
bits_to_bytes_raises(bits, nbits) == nbits % 8 /= 0

\* bits is a function over 0..nbits-1; B[i // 8] += bits[i] * 2^(i % 8)
bits_to_bytes(bits, nbits) ==
  [b \in 1..(nbits \div 8) |->
     LET o == 8 * (b - 1)
     IN bits[o] + 2 * bits[o + 1] + 4 * bits[o + 2] + 8 * bits[o + 3]
        + 16 * bits[o + 4] + 32 * bits[o + 5] + 64 * bits[o + 6] + 128 * bits[o + 7]]

\* a variant that takes the bits of a byte from the most significant end
bytes_to_bits_msb_first(data) ==
  [t \in 0..(8 * Len(data) - 1) |-> (data[(t \div 8) + 1] \div Pow2(7 - (t % 8))) % 2]

\* bits[8 * i + j] = C[i] % 2, C[i] = C[i] // 2, for j = 0..7
bytes_to_bits(data) ==
  [t \in 0..(8 * Len(data) - 1) |-> (data[(t \div 8) + 1] \div Pow2(t % 8)) % 2]

byte_encode_raises(F, d) ==
  \/ d \notin 1..12
  \/ DOMAIN F /= 0..(N - 1)
  \/ LET m == IF d < 12 THEN Pow2(d) ELSE Q
     IN \E i \in 0..(N - 1) : F[i] < 0 \/ F[i] >= m

\* bit j of coefficient i is appended at position i * d + j
byte_encode(F, d) ==
  LET bits == [t \in 0..(N * d - 1) |-> (F[t \div d] \div Pow2(t % d)) % 2]
  IN bits_to_bytes(bits, N * d)

byte_decode_raises(B, d) == d \notin 1..12 \/ Len(B) /= 32 * d

byte_decode(B, d) ==
  LET m == IF d < 12 THEN Pow2(d) ELSE Q
      bits == bytes_to_bits(B)
      RECURSIVE value(_, _)
      value(i, j) == IF j >= d THEN 0 ELSE bits[i * d + j] * Pow2(j) + value(i, j + 1)
  IN [i \in 0..(N - 1) |-> value(i, 0) % m]

\* the integer Compress_d / Decompress_d of utils.serialization
\* a variant that truncates where Compress_d rounds
ser_compress_truncating(x, d) == ((x * Pow2(d)) \div Q) % Pow2(d)
ser_compress(x, d) == ((x * Pow2(d) + Q \div 2) \div Q) % Pow2(d)
ser_decompress(y, d) == (y * Q + Pow2(d - 1)) \div Pow2(d)

byte_encode_12(f) == byte_encode(f, 12)
byte_decode_12(data) == byte_decode(data, 12)
byte_encode_du(f, du) == byte_encode(f, du)
byte_decode_du(data, du) == byte_decode(data, du)
byte_encode_dv(f, dv) == byte_encode(f, dv)
byte_decode_dv(data, dv) == byte_decode(data, dv)

(***************************************************************************)
(* utils/poly_utils.py                                                     *)
(***************************************************************************)
RECURSIVE bit_rev_7_loop(_, _, _)
bit_rev_7_loop(x, result, i) ==
  IF i >= 7 THEN result
  ELSE bit_rev_7_loop(x \div 2, result * 2 + (x % 2), i + 1)
bit_rev_7(x) == bit_rev_7_loop(x, 0, 0)

RECURSIVE mod_pow_loop(_, _, _, _)
mod_pow_loop(base, exp, mod, result) ==
  IF exp <= 0 THEN result
  ELSE mod_pow_loop((base * base) % mod, exp \div 2, mod,
                    IF exp % 2 = 1 THEN (result * base) % mod ELSE result)
mod_pow(base, exp, mod) == mod_pow_loop(base % mod, exp, mod, 1)

NTT_FACTORS == [i \in 0..127 |-> mod_pow(ZETA, bit_rev_7(i), Q)]
BASE_CASE_FACTORS == [i \in 0..127 |-> mod_pow(ZETA, (2 * bit_rev_7(i) + 1) % (2 * N), Q)]

\* the butterflies of one value of `length` (they touch disjoint pairs);
\* k0 is the value of k when the layer starts, one zeta per group
ntt_layer(f, length, k0) ==
  [j \in 0..(N - 1) |->
     LET zeta == NTT_FACTORS[k0 + (j \div (2 * length))]
         lo == IF j % (2 * length) < length THEN j ELSE j - length
         t == (zeta * f[lo + length]) % Q
     IN IF j = lo THEN (f[lo] + t) % Q ELSE (f[lo] - t) % Q]

RECURSIVE ntt_loop(_, _, _)
ntt_loop(f_hat, length, k) ==
  IF length < 2 THEN f_hat
  ELSE LET g == ntt_layer(f_hat, length, k)
       IN IF g = g THEN ntt_loop(g, length \div 2, k + N \div (2 * length)) ELSE g

ntt_raises(f) == DOMAIN f /= 0..(N - 1)

\* a variant whose loop ends one layer early (while length >= 4)
RECURSIVE ntt_loop_ends_early(_, _, _)
ntt_loop_ends_early(f_hat, length, k) ==
  IF length < 4 THEN f_hat
  ELSE LET g == ntt_layer(f_hat, length, k)
       IN IF g = g THEN ntt_loop_ends_early(g, length \div 2, k + N \div (2 * length)) ELSE g
ntt_ends_early(f) == ntt_loop_ends_early(f, 128, 1)

ntt(f) == ntt_loop(f, 128, 1)

\* one value of `length` of the inverse; k0 is k when the layer starts and
\* k decreases by one per group
ntt_inverse_layer(f, length, k0) ==
  [j \in 0..(N - 1) |->
     LET zeta == NTT_FACTORS[k0 - (j \div (2 * length))]
         lo == IF j % (2 * length) < length THEN j ELSE j - length
         t == f[lo]
     IN IF j = lo THEN (t + f[lo + length]) % Q
        ELSE (zeta * (f[lo + length] - t)) % Q]

RECURSIVE ntt_inverse_loop(_, _, _)
ntt_inverse_loop(f, length, k) ==
  IF length > 128 THEN f
  ELSE LET g == ntt_inverse_layer(f, length, k)
       IN IF g = g THEN ntt_inverse_loop(g, length * 2, k - N \div (2 * length)) ELSE g

\* a variant without the final multiplication by 128^-1
ntt_inverse_unscaled(f_hat) == ntt_inverse_loop(f_hat, 2, 127)

ntt_inverse(f_hat) ==
  LET f == ntt_inverse_loop(f_hat, 2, 127)
  IN Force([i \in 0..(N - 1) |-> (f[i] * 3303) % Q])

intt(f_hat) == ntt_inverse(f_hat)

\* returns <<c0, c1>>
base_case_multiply(a0, a1, b0, b1, gamma) ==
  << (a0 * b0 + ((a1 * b1) % Q) * gamma) % Q, (a0 * b1 + a1 * b0) % Q >>

multiply_ntts(f_hat, g_hat) ==
  Force([t \in 0..(N - 1) |->
     LET i == t \div 2
         c == base_case_multiply(f_hat[2 * i], f_hat[2 * i + 1],
                                 g_hat[2 * i], g_hat[2 * i + 1], BASE_CASE_FACTORS[i])
     IN c[(t % 2) + 1]])

add_poly(a, b, q) == Force([i \in 0..(N - 1) |-> (a[i] + b[i]) % q])
sub_poly(a, b, q) == Force([i \in 0..(N - 1) |-> (a[i] - b[i]) % q])

ZeroPoly == [i \in 0..(N - 1) |-> 0]

\* sample_ntt: one iteration of the rejection loop `while idx < N` on the
\* loop state [a_hat, idx]; a state with idx >= N has left the loop
sample_ntt_step(xof, st) ==
  IF st.idx >= N THEN st
  ELSE LET C == squeeze(xof, 3)
           d1 == C[1] + 256 * (C[2] % 16)
           d2 == (C[2] \div 16) + 16 * C[3]
           a1 == IF d1 < Q THEN [st.a_hat EXCEPT ![st.idx] = d1] ELSE st.a_hat
           idx1 == IF d1 < Q THEN st.idx + 1 ELSE st.idx
           a2 == IF d2 < Q /\ idx1 < N THEN [a1 EXCEPT ![idx1] = d2] ELSE a1
           idx2 == IF d2 < Q /\ idx1 < N THEN idx1 + 1 ELSE idx1
       IN [a_hat |-> a2, idx |-> idx2]

\* n iterations, split in halves to keep the evaluation shallow
RECURSIVE sample_ntt_loop(_, _, _)
sample_ntt_loop(xof, st, n) ==
  IF n <= 0 THEN st
  ELSE IF n = 1 THEN sample_ntt_step(xof, st)
  ELSE LET half == sample_ntt_loop(xof, st, n \div 2)
       IN IF half = half THEN sample_ntt_loop(xof, half, n - n \div 2) ELSE half

\* An iteration that accepts a candidate advances idx, so N iterations that
\* all accept leave the loop.  The XOF object has no read position: an
\* iteration that accepts nothing leaves (a_hat, idx, xof) as it found them,
\* and the loop repeats that iteration for ever (done = FALSE).
sample_ntt(B) ==
  LET xof == XOF(Slice(B, 0, 32), B[33], B[34])
      st == sample_ntt_loop(xof, [a_hat |-> ZeroPoly, idx |-> 0], N)
  IN [done |-> st.idx >= N, a_hat |-> st.a_hat]

sample_ntt_raises(B) == Len(B) /= 34

sample_poly_cbd_raises(sigma, nonce, eta) == eta \notin {2, 3} \/ Len(sigma) /= 32

sample_poly_cbd(sigma, nonce, eta) ==
  LET B == PRF(eta, sigma, <<nonce>>)
      bits == Force(bytes_to_bits(B))
      RECURSIVE sum(_, _)
      sum(from, j) == IF j >= eta THEN 0 ELSE bits[from + j] + sum(from, j + 1)
  IN Force([i \in 0..(N - 1) |-> (sum(2 * i * eta, 0) - sum(2 * i * eta + eta, 0)) % Q])

sample_uniform_poly(rho, i, j) == sample_ntt(rho \o <<i, j>>)

\* sum over j of f(j), added to acc with add_poly, for j = 0..k-1
RECURSIVE dot_loop(_, _, _, _)
dot_loop(a, b, i, k) ==
  IF i >= k THEN ZeroPoly
  ELSE LET rest == dot_loop(a, b, i + 1, k)
       IN add_poly(multiply_ntts(a[i], b[i]), rest, Q)

\* vectors are functions over 0..k-1, matrices over (0..k-1) x (0..k-1)
matrix_vector_mul_ntt(A_hat, s_hat, k) ==
  Force([i \in 0..(k - 1) |-> dot_loop([j \in 0..(k - 1) |-> A_hat[i][j]], s_hat, 0, k)])
matrix_vector_multiply_ntt(A_hat, s_hat, k) == matrix_vector_mul_ntt(A_hat, s_hat, k)
dot_product_ntt(t_hat, r1_hat, k) == dot_loop(t_hat, r1_hat, 0, k)

(***************************************************************************)
(* pke/keygen.py                                                           *)
(***************************************************************************)
\* every entry is the record of its sample_ntt run, row by row
\* done = FALSE: one of the sample_ntt calls never returns
sample_matrix_A(rho, k) ==
  LET runs == Force([i \in 0..(k - 1) |-> [j \in 0..(k - 1) |-> sample_uniform_poly(rho, i, j)]])
  IN [done |-> \A i \in 0..(k - 1) : \A j \in 0..(k - 1) : runs[i][j].done,
      A_hat |-> [i \in 0..(k - 1) |-> [j \in 0..(k - 1) |-> runs[i][j].a_hat]]]

sample_secret_vector(sigma, k, eta, offset) ==
  Force([i \in 0..(k - 1) |-> sample_poly_cbd(sigma, offset + i, eta)])
sample_error_vector(sigma, k, eta, offset) ==
  Force([i \in 0..(k - 1) |-> sample_poly_cbd(sigma, offset + i, eta)])

\* b"" + byte_encode(vec[0], d) + ... + byte_encode(vec[k-1], d)
RECURSIVE encode_vector(_, _, _)
encode_vector(vec, k, d) ==
  IF k <= 0 THEN <<>> ELSE encode_vector(vec, k - 1, d) \o byte_encode(vec[k - 1], d)

serialize_public_key(t_hat, rho, k) == encode_vector(t_hat, k, 12) \o rho
\* a variant that stores the NTT of s where key generation stores s
serialize_secret_key_ntt(s, k) == encode_vector([i \in 0..(k - 1) |-> ntt(s[i])], k, 12)
serialize_secret_key(s, k) == encode_vector(s, k, 12)

\* step 1 of k_pke_keygen: expanded = G(d), rho and sigma are its halves
k_pke_keygen_expand(d, params) ==
  LET expanded == G(d)
  IN [rho |-> Slice(expanded, 0, 32), sigma |-> Slice(expanded, 32, 64)]

\* steps 3 to 6 of k_pke_keygen, given the matrix: the locals s, e, s_hat,
\* e_hat and t_hat
k_pke_keygen_vectors(A_hat, sigma, params) ==
  LET s == sample_secret_vector(sigma, params.k, params.eta1, 0)
      e == sample_error_vector(sigma, params.k, params.eta1, params.k)
      s_hat == Force([i \in 0..(params.k - 1) |-> ntt(s[i])])
      e_hat == Force([i \in 0..(params.k - 1) |-> ntt(e[i])])
      As == matrix_vector_multiply_ntt(A_hat, s_hat, params.k)
      t_hat == Force([i \in 0..(params.k - 1) |->
                  [j \in 0..(N - 1) |-> (As[i][j] + e_hat[i][j]) % Q]])
  IN [s |-> s, e |-> e, s_hat |-> s_hat, e_hat |-> e_hat, t_hat |-> t_hat]

\* status is "ValueError" (raised), "hang" (the matrix sampling never
\* returns) or "ok"
k_pke_keygen(d, params) ==
  IF Len(d) /= 32 THEN [status |-> "ValueError", pk |-> <<>>, sk |-> <<>>]
  ELSE
    LET seeds == k_pke_keygen_expand(d, params)
        A == sample_matrix_A(seeds.rho, params.k)
    IN IF ~ A.done
       THEN [status |-> "hang", pk |-> <<>>, sk |-> <<>>]
       ELSE
         Bind(k_pke_keygen_vectors(A.A_hat, seeds.sigma, params),
              LAMBDA v :
                [status |-> "ok",
                 pk |-> serialize_public_key(v.t_hat, seeds.rho, params.k),
                 sk |-> serialize_secret_key(v.s, params.k)])

(***************************************************************************)
(* pke/encrypt.py                                                          *)
(***************************************************************************)
parse_public_key(ek_pke, k) ==
  [t_hat |-> Force([i \in 0..(k - 1) |-> byte_decode_12(Slice(ek_pke, 384 * i, 384 * i + 384))]),
   rho |-> Slice(ek_pke, 384 * k, 384 * k + 32)]

sample_error_vector_encrypt(r, k, eta, offset) == sample_error_vector(r, k, eta, offset)

\* a variant that multiplies by A where encryption multiplies by its transpose
matrix_vector_multiply_ntt_untransposed(A_hat, r1_hat, k) ==
  Force([i \in 0..(k - 1) |-> dot_loop([j \in 0..(k - 1) |-> A_hat[i][j]], r1_hat, 0, k)])

matrix_transpose_vector_multiply_ntt(A_hat, r1_hat, k) ==
  Force([j \in 0..(k - 1) |-> dot_loop([i \in 0..(k - 1) |-> A_hat[i][j]], r1_hat, 0, k)])

\* a variant that maps a 1 bit to the rounded-up half of q
decompress_message_rounded_up(m) ==
  [i \in 0..(N - 1) |-> ((m[(i \div 8) + 1] \div Pow2(i % 8)) % 2) * ((Q + 1) \div 2)]

decompress_message(m) ==
  LET m_bits == [t \in 0..(8 * Len(m) - 1) |-> (m[(t \div 8) + 1] \div Pow2(t % 8)) % 2]
      q_half == Q \div 2
  IN [i \in 0..(N - 1) |-> m_bits[i] * q_half]

\* round((1 << d) * coeff / Q) % (1 << d), coefficient by coefficient
compress(poly, d) ==
  IF d = 0 THEN [i \in DOMAIN poly |-> 0]
  ELSE [i \in DOMAIN poly |-> PyRound(Pow2(d) * poly[i], Q) % Pow2(d)]

serialize_ciphertext(u_compressed, v_compressed, params) ==
  encode_vector(u_compressed, params.k, params.du) \o byte_encode_dv(v_compressed, params.dv)

\* the noise polynomials of k_pke_encrypt: r1 and r2 (step 3) and e1 (step 5)
k_pke_encrypt_noise(r, params) ==
  [r1 |-> sample_error_vector_encrypt(r, params.k, params.eta2, 0),
   r2 |-> sample_error_vector_encrypt(r, 1, params.eta2, params.k)[0],
   e1 |-> sample_error_vector_encrypt(r, params.k, params.eta2, params.k)]

k_pke_encrypt(ek_pke, m, r, params) ==
  IF Len(m) /= 32 \/ Len(r) /= 32 \/ Len(ek_pke) /= pk_bytes(params)
  THEN [status |-> "ValueError", c |-> <<>>]
  ELSE
    LET k == params.k
        pub == parse_public_key(ek_pke, k)
        A == sample_matrix_A(pub.rho, k)
    IN IF ~ A.done THEN [status |-> "hang", c |-> <<>>]
       ELSE
         LET A_hat == A.A_hat
             noise == k_pke_encrypt_noise(r, params)
             r1 == noise.r1
             r2 == noise.r2
             r1_hat == Force([i \in 0..(k - 1) |-> ntt(r1[i])])
             Ar == matrix_transpose_vector_multiply_ntt(A_hat, r1_hat, k)
             e1 == noise.e1
             e1_hat == Force([i \in 0..(k - 1) |-> ntt(e1[i])])
             u_hat == Force([i \in 0..(k - 1) |->
                         [j \in 0..(N - 1) |-> (Ar[i][j] + e1_hat[i][j]) % Q]])
             u == Force([i \in 0..(k - 1) |-> intt(u_hat[i])])
             v0 == intt(dot_product_ntt(pub.t_hat, r1_hat, k))
             v1 == Force([i \in 0..(N - 1) |-> (v0[i] + r2[i]) % Q])
             m_poly == Force(decompress_message(m))
             v == Force([i \in 0..(N - 1) |-> (v1[i] + m_poly[i]) % Q])
             u_compressed == Force([i \in 0..(k - 1) |-> compress(u[i], params.du)])
             v_compressed == Force(compress(v, params.dv))
         IN IF \/ \E i \in 0..(k - 1) : byte_encode_raises(u_compressed[i], params.du)
               \/ byte_encode_raises(v_compressed, params.dv)
            THEN [status |-> "ValueError", c |-> <<>>]
            ELSE [status |-> "ok", c |-> serialize_ciphertext(u_compressed, v_compressed, params)]

(***************************************************************************)
(* pke/decrypt.py                                                          *)
(***************************************************************************)
parse_secret_key(dk_pke, k) ==
  Force([i \in 0..(k - 1) |-> byte_decode_12(Slice(dk_pke, 384 * i, 384 * i + 384))])

parse_ciphertext(c, params) ==
  LET u_poly_bytes == 32 * params.du
      v_poly_bytes == 32 * params.dv
  IN [u_compressed |->
        Force([i \in 0..(params.k - 1) |->
           byte_decode_du(Slice(c, u_poly_bytes * i, u_poly_bytes * i + u_poly_bytes), params.du)]),
      v_compressed |->
        Force(byte_decode_dv(Slice(c, u_poly_bytes * params.k, u_poly_bytes * params.k + v_poly_bytes),
                             params.dv))]

\* round(Q * coeff / (1 << d)) % Q, coefficient by coefficient
decompress(poly_compressed, d) ==
  IF d = 0 THEN [i \in DOMAIN poly_compressed |-> 0]
  ELSE [i \in DOMAIN poly_compressed |-> PyRound(Q * poly_compressed[i], Pow2(d)) % Q]

\* a variant that takes the upper half of the range for a 1 bit
compress_to_message_upper_half(w) ==
  LET bits == [i \in 0..(N - 1) |-> IF (w[i] % Q) > Q \div 2 THEN 1 ELSE 0]
  IN [b \in 1..32 |->
        LET o == 8 * (b - 1)
        IN bits[o] + 2 * bits[o + 1] + 4 * bits[o + 2] + 8 * bits[o + 3]
           + 16 * bits[o + 4] + 32 * bits[o + 5] + 64 * bits[o + 6] + 128 * bits[o + 7]]

compress_to_message(w) ==
  LET q_quarter == Q \div 4
      bits == [i \in 0..(N - 1) |->
                 LET coeff == w[i] % Q
                 IN IF coeff > q_quarter /\ coeff < 3 * q_quarter THEN 1 ELSE 0]
  IN [b \in 1..32 |->
        LET o == 8 * (b - 1)
        IN bits[o] + 2 * bits[o + 1] + 4 * bits[o + 2] + 8 * bits[o + 3]
           + 16 * bits[o + 4] + 32 * bits[o + 5] + 64 * bits[o + 6] + 128 * bits[o + 7]]

\* steps 1 and 4 of k_pke_decrypt: s = parse_secret_key(dk_pke, k),
\* s_hat = [ntt(poly) for poly in s], the vector multiplied with u_hat
k_pke_decrypt_s_hat(dk_pke, params) ==
  LET s == parse_secret_key(dk_pke, params.k)
  IN Force([i \in 0..(params.k - 1) |-> ntt(s[i])])

k_pke_decrypt(dk_pke, c, params) ==
  IF Len(dk_pke) /= 384 * params.k \/ Len(c) /= ct_bytes(params)
  THEN [status |-> "ValueError", m |-> <<>>]
  ELSE
    LET k == params.k
        ct_parts == parse_ciphertext(c, params)
        u == Force([i \in 0..(k - 1) |-> decompress(ct_parts.u_compressed[i], params.du)])
        v == Force(decompress(ct_parts.v_compressed, params.dv))
        s_hat == k_pke_decrypt_s_hat(dk_pke, params)
        u_hat == Force([i \in 0..(k - 1) |-> ntt(u[i])])
        su == intt(dot_product_ntt(s_hat, u_hat, k))
        w == Force([i \in 0..(N - 1) |-> (v[i] - su[i]) % Q])
    IN [status |-> "ok", m |-> compress_to_message(w)]

(***************************************************************************)
(* kem/keygen.py, kem/encaps.py, kem/decaps.py.  The oracle outputs that   *)
(* a function reads are passed to its operator in the order it reads them; *)
(* `trace` lists the primitive operations a call has executed.             *)
(***************************************************************************)
\* a variant that stores z before the hash
construct_decapsulation_key_z_first(dk_pke, ek_pke, ek_pke_hash, z) ==
  dk_pke \o ek_pke \o z \o ek_pke_hash

construct_decapsulation_key(dk_pke, ek_pke, ek_pke_hash, z) ==
  dk_pke \o ek_pke \o ek_pke_hash \o z

parse_decapsulation_key_raises(dk, params) == Len(dk) /= sk_bytes(params)

parse_decapsulation_key(dk, params) ==
  LET dk_pke_len == 384 * params.k
      ek_pke_len == pk_bytes(params)
  IN [dk_pke |-> Slice(dk, 0, dk_pke_len),
      ek_pke |-> Slice(dk, dk_pke_len, dk_pke_len + ek_pke_len),
      ek_pke_hash |-> Slice(dk, dk_pke_len + ek_pke_len, dk_pke_len + ek_pke_len + 32),
      z |-> Slice(dk, dk_pke_len + ek_pke_len + 32, dk_pke_len + ek_pke_len + 64)]

\* a variant that stores the first oracle output where z belongs
ml_kem_keygen_reused_seed(d, z, params) ==
  Bind(k_pke_keygen(d, params), LAMBDA kg :
    IF kg.status /= "ok"
    THEN [status |-> kg.status, ek |-> <<>>, dk |-> <<>>,
          trace |-> <<"random_bytes", "k_pke_keygen">>]
    ELSE [status |-> "ok", ek |-> kg.pk,
          dk |-> construct_decapsulation_key(kg.sk, kg.pk, H(kg.pk), d),
          trace |-> <<"random_bytes", "k_pke_keygen", "random_bytes", "H">>])

\* d and z are the first and the second oracle output
ml_kem_keygen(d, z, params) ==
  Bind(k_pke_keygen(d, params), LAMBDA kg :
    IF kg.status /= "ok"
    THEN [status |-> kg.status, ek |-> <<>>, dk |-> <<>>,
          trace |-> <<"random_bytes", "k_pke_keygen">>]
    ELSE [status |-> "ok", ek |-> kg.pk,
          dk |-> construct_decapsulation_key(kg.sk, kg.pk, H(kg.pk), z),
          trace |-> <<"random_bytes", "k_pke_keygen", "random_bytes", "H">>])

\* the body of ml_kem_encaps after its length check; m is the oracle output
ml_kem_encaps(ek, m, params) ==
  Bind(G(m \o H(ek)), LAMBDA g_output :
  Bind(k_pke_encrypt(ek, m, Slice(g_output, 32, 64), params), LAMBDA enc :
    [status |-> enc.status,
     K |-> IF enc.status = "ok" THEN Slice(g_output, 0, 32) ELSE <<>>,
     c |-> enc.c,
     trace |-> <<"random_bytes", "H", "G", "k_pke_encrypt">>]))

\* a variant that derives (K, r) from m alone
ml_kem_encaps_deterministic_unbound(ek, m, params) ==
  IF Len(ek) /= pk_bytes(params) \/ Len(m) /= 32
  THEN [status |-> "ValueError", K |-> <<>>, c |-> <<>>, trace |-> <<>>]
  ELSE
    Bind(G(m), LAMBDA g_output :
    Bind(k_pke_encrypt(ek, m, Slice(g_output, 32, 64), params), LAMBDA enc :
      [status |-> enc.status,
       K |-> IF enc.status = "ok" THEN Slice(g_output, 0, 32) ELSE <<>>,
       c |-> enc.c,
       trace |-> <<"G", "k_pke_encrypt">>]))

ml_kem_encaps_deterministic(ek, m, params) ==
  IF Len(ek) /= pk_bytes(params) \/ Len(m) /= 32
  THEN [status |-> "ValueError", K |-> <<>>, c |-> <<>>, trace |-> <<>>]
  ELSE
    Bind(G(m \o H(ek)), LAMBDA g_output :
    Bind(k_pke_encrypt(ek, m, Slice(g_output, 32, 64), params), LAMBDA enc :
      [status |-> enc.status,
       K |-> IF enc.status = "ok" THEN Slice(g_output, 0, 32) ELSE <<>>,
       c |-> enc.c,
       trace |-> <<"H", "G", "k_pke_encrypt">>]))

\* x ^ y and x | y on bytes
RECURSIVE byte_xor(_, _, _)
byte_xor(x, y, n) ==
  IF n <= 0 THEN 0
  ELSE ((x + y) % 2) + 2 * byte_xor(x \div 2, y \div 2, n - 1)
RECURSIVE byte_or(_, _, _)
byte_or(x, y, n) ==
  IF n <= 0 THEN 0
  ELSE (IF x % 2 = 1 \/ y % 2 = 1 THEN 1 ELSE 0) + 2 * byte_or(x \div 2, y \div 2, n - 1)

\* a variant that leaves the loop at the first position that differs
RECURSIVE compare_loop_early_exit(_, _, _, _)
compare_loop_early_exit(a, b, lo, hi) ==
  IF lo > hi THEN [result |-> 0, steps |-> 0]
  ELSE IF a[lo] /= b[lo] THEN [result |-> byte_xor(a[lo], b[lo], 8), steps |-> 1]
  ELSE LET rest == compare_loop_early_exit(a, b, lo + 1, hi)
       IN [result |-> rest.result, steps |-> 1 + rest.steps]

\* result |= x ^ y over the positions lo..hi (or is associative: the
\* positions are folded in halves), with the number of positions visited
RECURSIVE compare_loop(_, _, _, _)
compare_loop(a, b, lo, hi) ==
  IF lo > hi THEN [result |-> 0, steps |-> 0]
  ELSE IF lo = hi THEN [result |-> byte_xor(a[lo], b[lo], 8), steps |-> 1]
  ELSE LET mid == (lo + hi) \div 2
           left == compare_loop(a, b, lo, mid)
           right == compare_loop(a, b, mid + 1, hi)
       IN [result |-> byte_or(left.result, right.result, 8), steps |-> left.steps + right.steps]

\* a variant that compares the lengths only
constant_time_compare_lengths(a, b) == Len(a) = Len(b)

constant_time_compare(a, b) ==
  IF Len(a) /= Len(b) THEN FALSE
  ELSE compare_loop(a, b, 1, Len(a)).result = 0

\* the number of passes of the loop `for x, y in zip(a, b)` in that call
constant_time_compare_steps(a, b) ==
  IF Len(a) /= Len(b) THEN 0
  ELSE compare_loop(a, b, 1, Len(a)).steps

ml_kem_decaps(dk, c, params) ==
  IF Len(dk) /= sk_bytes(params) \/ Len(c) /= ct_bytes(params)
  THEN [status |-> "ValueError", K |-> <<>>, trace |-> <<>>]
  ELSE
    Bind(parse_decapsulation_key(dk, params), LAMBDA key :
    Bind(k_pke_decrypt(key.dk_pke, c, params), LAMBDA dec :
      IF dec.status /= "ok"
      THEN [status |-> dec.status, K |-> <<>>, trace |-> <<"k_pke_decrypt">>]
      ELSE
        Bind(Force(dec.m), LAMBDA m_prime :
        Bind(G(m_prime \o key.ek_pke_hash), LAMBDA g_output :
        Bind(Slice(g_output, 0, 32), LAMBDA K_prime :
        Bind(k_pke_encrypt(key.ek_pke, m_prime, Slice(g_output, 32, 64), params), LAMBDA enc :
          IF enc.status /= "ok"
          THEN [status |-> enc.status, K |-> <<>>,
                trace |-> <<"k_pke_decrypt", "G", "k_pke_encrypt">>]
          ELSE IF constant_time_compare(c, enc.c)
          THEN [status |-> "ok", K |-> K_prime,
                trace |-> <<"k_pke_decrypt", "G", "k_pke_encrypt", "constant_time_compare">>]
          ELSE [status |-> "ok", K |-> J(key.z \o c),
                trace |-> <<"k_pke_decrypt", "G", "k_pke_encrypt", "constant_time_compare", "J">>]))))))

(***************************************************************************)
(* The randomness oracle random_bytes(n): read number i (from 1) of tape t *)
(***************************************************************************)
random_bytes(t, i, n) == [j \in 1..n |-> (t * 59 + i * 83 + j * 7) % 256]

(***************************************************************************)
(* The state: one ML-KEM instance (its parameter set), the oracle, the     *)
(* key pair and the encapsulation the parties hold, and the call in        *)
(* progress with what it has read from the oracle and executed so far.     *)
(* Where two calls run at the same time, `threads` holds the call record   *)
(* of each; `xof_obj` holds the XOF objects that exist.                    *)
(***************************************************************************)
VARIABLES kem_params, oracle_tape, oracle_pos, key_ek, key_dk, enc_ss, enc_ct,
          pc, call_op, call_key, call_msg, call_reads, call_trace, call_status,
          call_ret, threads, xof_obj

vars == <<kem_params, oracle_tape, oracle_pos, key_ek, key_dk, enc_ss, enc_ct,
          pc, call_op, call_key, call_msg, call_reads, call_trace, call_status,
          call_ret, threads, xof_obj>>

session == <<key_ek, key_dk, enc_ss, enc_ct>>
\* what a sequential call of the API leaves alone: the parameter set, the
\* oracle's tape, and (there being none) concurrent calls and XOF objects
instance == <<kem_params, oracle_tape, threads, xof_obj>>

Init ==
  /\ kem_params \in PARAMETER_SETS
  /\ oracle_tape \in 0..MaxTape
  /\ oracle_pos = 0
  /\ threads = <<>> /\ xof_obj = <<>>
  /\ key_ek = <<>> /\ key_dk = <<>> /\ enc_ss = <<>> /\ enc_ct = <<>>
  /\ pc = "idle" /\ call_op = "none" /\ call_key = <<>> /\ call_msg = <<>>
  /\ call_reads = <<>> /\ call_trace = <<>> /\ call_status = "none"
  /\ call_ret = <<>>

\* a variant in which the oracle is read before the lengths are checked
RaiseAfterRead(op, key, msg, status) ==
  /\ pc' = "returned" /\ call_op' = op /\ call_key' = key /\ call_msg' = msg
  /\ call_reads' = <<random_bytes(oracle_tape, oracle_pos + 1, 32)>>
  /\ oracle_pos' = oracle_pos + 1
  /\ call_trace' = <<"random_bytes">> /\ call_status' = status
  /\ call_ret' = <<>>
  /\ UNCHANGED <<instance, session>>

\* a call that raises: nothing but the exception comes back
Raise(op, key, msg, status) ==
  /\ pc' = "returned" /\ call_op' = op /\ call_key' = key /\ call_msg' = msg
  /\ call_reads' = <<>> /\ call_trace' = <<>> /\ call_status' = status
  /\ call_ret' = <<>>
  /\ UNCHANGED <<instance, oracle_pos, session>>

\* the inputs the callers present
BadCoefficient(ek) == [ek EXCEPT ![1] = 255, ![2] = 255]
FlipBits(c, i, mask) == [c EXCEPT ![i] = byte_xor(c[i], mask, 8)]
EkInputs == {key_ek, key_ek \o <<0>>, BadCoefficient(key_ek)}
MInputs == {Bytes(32, 0), Bytes(31, 0)}
\* before an encapsulation exists: a malformed ciphertext and a key of the
\* right length that was never generated; afterwards: the ciphertext, and
\* the ciphertext with one bit flipped
DecapsInputs ==
  {<<key_dk, Bytes(ct_bytes(kem_params) - 1, 0)>>,
   <<Slice(key_dk, 0, Len(key_dk) - 1), Bytes(ct_bytes(kem_params), 0)>>}
  \cup (IF enc_ct = <<>>
        THEN {<<key_dk, Bytes(ct_bytes(kem_params), 0)>>,
              <<Bytes(sk_bytes(kem_params), 0), Bytes(ct_bytes(kem_params), 0)>>}
        ELSE {<<key_dk, enc_ct>>, <<key_dk, FlipBits(enc_ct, 1, 1)>>})

\* ml_kem_keygen up to the call of k_pke_keygen: d is read
KeyGenCall ==
  /\ pc = "idle"
  /\ oracle_pos + 2 <= MaxReads
  /\ pc' = "running" /\ call_op' = "keygen"
  /\ call_reads' = <<random_bytes(oracle_tape, oracle_pos + 1, 32)>>
  /\ oracle_pos' = oracle_pos + 1
  /\ call_trace' = <<"random_bytes">>
  /\ UNCHANGED <<instance, session, call_key, call_msg, call_status, call_ret>>

\* the rest of ml_kem_keygen: K-PKE key generation, z is read, dk is built
KeyGenReturn ==
  /\ pc = "running" /\ call_op = "keygen"
  /\ \E z \in {random_bytes(oracle_tape, oracle_pos + 1, 32)} :
     \E res \in {ml_kem_keygen(call_reads[1], z, kem_params)} :
        /\ res.status /= "hang"
        /\ IF res.status = "ok"
           THEN /\ oracle_pos' = oracle_pos + 1
                /\ call_reads' = Append(call_reads, z)
                /\ call_ret' = <<res.ek, res.dk>>
                /\ key_ek' = res.ek /\ key_dk' = res.dk
                /\ enc_ss' = <<>> /\ enc_ct' = <<>>
           ELSE /\ call_ret' = <<>>
                /\ UNCHANGED <<oracle_pos, call_reads, session>>
        /\ call_trace' = res.trace
        /\ call_status' = res.status
  /\ pc' = "returned"
  /\ UNCHANGED <<instance, call_op, call_key, call_msg>>

\* ml_kem_encaps: the length check, then m is read.  A key pair serves one
\* encapsulation in the runs considered.
EncapsCall ==
  /\ pc = "idle" /\ key_ek /= <<>> /\ enc_ct = <<>>
  /\ \E ek \in EkInputs :
       \/ /\ Len(ek) /= pk_bytes(kem_params)
          /\ Raise("encaps", ek, <<>>, "ValueError")
       \/ /\ Len(ek) = pk_bytes(kem_params)
          /\ oracle_pos < MaxReads
          /\ pc' = "running" /\ call_op' = "encaps" /\ call_key' = ek
          /\ call_reads' = <<random_bytes(oracle_tape, oracle_pos + 1, 32)>>
          /\ oracle_pos' = oracle_pos + 1
          /\ call_trace' = <<"random_bytes">>
          /\ UNCHANGED <<instance, session, call_msg, call_status, call_ret>>

EncapsReturn ==
  /\ pc = "running" /\ call_op = "encaps"
  /\ \E res \in {ml_kem_encaps(call_key, call_reads[1], kem_params)} :
        /\ res.status /= "hang"
        /\ call_status' = res.status
        /\ call_trace' = res.trace
        /\ call_ret' = IF res.status = "ok" THEN <<res.K, res.c>> ELSE <<>>
        /\ IF res.status = "ok" /\ call_key = key_ek
           THEN enc_ss' = res.K /\ enc_ct' = res.c
           ELSE UNCHANGED <<enc_ss, enc_ct>>
  /\ pc' = "returned"
  /\ UNCHANGED <<instance, oracle_pos, key_ek, key_dk, call_op, call_key, call_msg,
                 call_reads>>

\* ml_kem_encaps_deterministic: the two length checks
EncapsDetCall ==
  /\ pc = "idle" /\ key_ek /= <<>> /\ enc_ct = <<>>
  /\ \E ek \in EkInputs, m \in MInputs :
       \/ /\ Len(ek) /= pk_bytes(kem_params) \/ Len(m) /= 32
          /\ Raise("encaps_det", ek, m, "ValueError")
       \/ /\ Len(ek) = pk_bytes(kem_params) /\ Len(m) = 32
          /\ pc' = "running" /\ call_op' = "encaps_det" /\ call_key' = ek /\ call_msg' = m
          /\ UNCHANGED <<instance, oracle_pos, session, call_reads, call_trace, call_status,
                         call_ret>>

EncapsDetReturn ==
  /\ pc = "running" /\ call_op = "encaps_det"
  /\ \E res \in {ml_kem_encaps_deterministic(call_key, call_msg, kem_params)} :
        /\ res.status /= "hang"
        /\ call_status' = res.status
        /\ call_trace' = res.trace
        /\ call_ret' = IF res.status = "ok" THEN <<res.K, res.c>> ELSE <<>>
        /\ IF res.status = "ok" /\ call_key = key_ek
           THEN enc_ss' = res.K /\ enc_ct' = res.c
           ELSE UNCHANGED <<enc_ss, enc_ct>>
  /\ pc' = "returned"
  /\ UNCHANGED <<instance, oracle_pos, key_ek, key_dk, call_op, call_key, call_msg, call_reads>>

\* ml_kem_decaps: the two length checks
DecapsCall ==
  /\ pc = "idle" /\ key_dk /= <<>>
  /\ \E inp \in DecapsInputs :
       \/ /\ Len(inp[1]) /= sk_bytes(kem_params) \/ Len(inp[2]) /= ct_bytes(kem_params)
          /\ Raise("decaps", inp[1], inp[2], "ValueError")
       \/ /\ Len(inp[1]) = sk_bytes(kem_params) /\ Len(inp[2]) = ct_bytes(kem_params)
          /\ pc' = "running" /\ call_op' = "decaps"
          /\ call_key' = inp[1] /\ call_msg' = inp[2]
          /\ UNCHANGED <<instance, oracle_pos, session, call_reads, call_trace, call_status,
                         call_ret>>

\* the rest of ml_kem_decaps; it returns only if the matrix sampling of the
\* re-encryption comes to an end
DecapsReturn ==
  /\ pc = "running" /\ call_op = "decaps"
  /\ \E res \in {ml_kem_decaps(call_key, call_msg, kem_params)} :
        /\ res.status /= "hang"
        /\ call_status' = res.status
        /\ call_trace' = res.trace
        /\ call_ret' = IF res.status = "ok" THEN <<res.K>> ELSE <<>>
  /\ pc' = "returned"
  /\ UNCHANGED <<instance, oracle_pos, session, call_op, call_key, call_msg, call_reads>>

\* the caller takes the result
Ack ==
  /\ pc = "returned"
  /\ pc' = "idle" /\ call_op' = "none" /\ call_key' = <<>> /\ call_msg' = <<>>
  /\ call_reads' = <<>> /\ call_trace' = <<>> /\ call_status' = "none"
  /\ call_ret' = <<>>
  /\ UNCHANGED <<instance, oracle_pos, session>>

Next ==
  \/ KeyGenCall
  \/ KeyGenReturn
  \/ EncapsCall
  \/ EncapsReturn
  \/ EncapsDetCall
  \/ EncapsDetReturn
  \/ DecapsCall
  \/ DecapsReturn
  \/ Ack

Spec == Init /\ [][Next]_vars

(***************************************************************************)
(* Direct calls of single functions of the library, as the tests and the   *)
(* debug scripts of the repository make them.  No KEM session exists; the  *)
(* call record holds the function, its arguments and what it returned.     *)
(***************************************************************************)
NoSession ==
  /\ kem_params = ML_KEM_768 /\ oracle_tape = 0 /\ oracle_pos = 0
  /\ key_ek = <<>> /\ key_dk = <<>> /\ enc_ss = <<>> /\ enc_ct = <<>>
  /\ threads = <<>> /\ xof_obj = <<>>

\* the variables a direct call leaves alone
no_session ==
  <<kem_params, oracle_tape, oracle_pos, key_ek, key_dk, enc_ss, enc_ct, threads, xof_obj>>

\* polynomials: c * X^i, pseudo-random coefficients in [0, q), constants
Monomial(i, c) == [j \in 0..(N - 1) |-> IF j = i THEN c ELSE 0]
RandomPoly(seed) == [j \in 0..(N - 1) |-> (seed * 977 + j * j * 31 + j * 7 + 5) % Q]
ConstantPoly(c) == [j \in 0..(N - 1) |-> c]
PolyInputs ==
  {Monomial(i, 1) : i \in 0..(N - 1)}
    \cup {Monomial(i, Q - 1) : i \in {0, 1, 128, 255}}
    \cup {RandomPoly(seed) : seed \in 0..MaxPolySeed}
    \cup {ConstantPoly(0), ConstantPoly(Q - 1)}

\* ntt(f), then ntt_inverse of what it returned
InitNTT ==
  /\ NoSession
  /\ pc = "idle" /\ call_op = "ntt" /\ call_key = <<>> /\ call_msg \in PolyInputs
  /\ call_reads = <<>> /\ call_trace = <<>> /\ call_status = "none" /\ call_ret = <<>>

NttCall ==
  /\ pc = "idle" /\ call_op = "ntt"
  /\ ~ ntt_raises(call_msg)
  /\ pc' = "returned" /\ call_status' = "ok"
  /\ call_ret' = <<ntt(call_msg)>>
  /\ UNCHANGED <<no_session, call_op, call_key, call_msg, call_reads, call_trace>>

NttInverseCall ==
  /\ pc = "returned" /\ call_op = "ntt"
  /\ call_op' = "ntt_inverse"
  /\ call_ret' = <<call_ret[1], ntt_inverse(call_ret[1])>>
  /\ UNCHANGED <<no_session, pc, call_key, call_msg, call_reads, call_trace, call_status>>

NextNTT ==
  \/ NttCall
  \/ NttInverseCall

SpecNTT == InitNTT /\ [][NextNTT]_vars

\* byte_encode / byte_decode: the modulus of a width, arrays of 256 integers
\* in [0, m) and strings of 32 * d bytes
CodecModulus(d) == IF d < 12 THEN Pow2(d) ELSE Q
RandomBytes(seed, n) == [i \in 1..n |-> (seed * 59 + i * 83 + i * i * 7 + 11) % 256]
\* 384 bytes whose 12-bit fields are all below q: in each group of three
\* bytes the low nibble of the second is <= 12 and the third is <= 207
RandomBytesBelowQ(seed) ==
  [i \in 1..384 |->
     LET r == RandomBytes(seed, 384)[i]
     IN CASE i % 3 = 1 -> r
          [] i % 3 = 2 -> 16 * (r \div 16) + (r % 13)
          [] i % 3 = 0 -> r % 208]
CodecArrays(d) ==
  {ConstantPoly(0), ConstantPoly(CodecModulus(d) - 1),
   [j \in 0..(N - 1) |-> j % CodecModulus(d)]}
    \cup {[j \in 0..(N - 1) |-> RandomPoly(seed)[j] % CodecModulus(d)] : seed \in 0..MaxCodecSeed}
CodecStrings(d) ==
  {Bytes(32 * d, 0), Bytes(32 * d, 255)}
    \cup {RandomBytes(seed, 32 * d) : seed \in 0..MaxCodecSeed}
    \cup (IF d = 12 THEN {RandomBytesBelowQ(seed) : seed \in 0..MaxCodecSeed} ELSE {})

InitCodec ==
  /\ NoSession
  /\ pc = "idle" /\ call_key = <<>>
  /\ \E d \in 1..12 :
        \/ call_op = "byte_encode" /\ \E F \in CodecArrays(d) : call_msg = [F |-> F, d |-> d]
        \/ call_op = "byte_decode" /\ \E B \in CodecStrings(d) : call_msg = [B |-> B, d |-> d]
  /\ call_reads = <<>> /\ call_trace = <<>> /\ call_status = "none" /\ call_ret = <<>>

ByteEncodeCall ==
  /\ pc = "idle" /\ call_op = "byte_encode"
  /\ pc' = "returned"
  /\ IF byte_encode_raises(call_msg.F, call_msg.d)
     THEN call_status' = "ValueError" /\ call_ret' = <<>>
     ELSE call_status' = "ok" /\ call_ret' = <<byte_encode(call_msg.F, call_msg.d)>>
  /\ UNCHANGED <<no_session, call_op, call_key, call_msg, call_reads, call_trace>>

\* byte_decode of what byte_encode returned
ByteDecodeBack ==
  /\ pc = "returned" /\ call_op = "byte_encode" /\ call_status = "ok"
  /\ ~ byte_decode_raises(call_ret[1], call_msg.d)
  /\ call_op' = "byte_encode, byte_decode"
  /\ call_ret' = <<call_ret[1], byte_decode(call_ret[1], call_msg.d)>>
  /\ UNCHANGED <<no_session, pc, call_key, call_msg, call_reads, call_trace, call_status>>

ByteDecodeCall ==
  /\ pc = "idle" /\ call_op = "byte_decode"
  /\ pc' = "returned"
  /\ IF byte_decode_raises(call_msg.B, call_msg.d)
     THEN call_status' = "ValueError" /\ call_ret' = <<>>
     ELSE call_status' = "ok" /\ call_ret' = <<byte_decode(call_msg.B, call_msg.d)>>
  /\ UNCHANGED <<no_session, call_op, call_key, call_msg, call_reads, call_trace>>

\* byte_encode of what byte_decode returned
ByteEncodeBack ==
  /\ pc = "returned" /\ call_op = "byte_decode" /\ call_status = "ok"
  /\ ~ byte_encode_raises(call_ret[1], call_msg.d)
  /\ call_op' = "byte_decode, byte_encode"
  /\ call_ret' = <<call_ret[1], byte_encode(call_ret[1], call_msg.d)>>
  /\ UNCHANGED <<no_session, pc, call_key, call_msg, call_reads, call_trace, call_status>>

NextCodec ==
  \/ ByteEncodeCall
  \/ ByteDecodeBack
  \/ ByteDecodeCall
  \/ ByteEncodeBack

SpecCodec == InitCodec /\ [][NextCodec]_vars

\* Compress_d, then Decompress_d, of one value x in [0, q): the integer
\* functions of utils.serialization and the list functions K-PKE calls
\* (pke.encrypt.compress, pke.decrypt.decompress), here on a list of one
InitCompress ==
  /\ NoSession
  /\ pc = "idle" /\ call_op = "compress" /\ call_key = <<>>
  /\ \E d \in 1..11, x \in 0..(Q - 1) : call_msg = [x |-> x, d |-> d]
  /\ call_reads = <<>> /\ call_trace = <<>> /\ call_status = "none" /\ call_ret = <<>>

CompressCall ==
  /\ pc = "idle" /\ call_op = "compress"
  /\ pc' = "returned" /\ call_status' = "ok"
  /\ call_ret' = <<[ser |-> ser_compress(call_msg.x, call_msg.d),
                    pke |-> compress(<<call_msg.x>>, call_msg.d)[1]]>>
  /\ UNCHANGED <<no_session, call_op, call_key, call_msg, call_reads, call_trace>>

DecompressCall ==
  /\ pc = "returned" /\ call_op = "compress"
  /\ call_op' = "compress, decompress"
  /\ call_ret' = <<call_ret[1],
                    [ser |-> ser_decompress(call_ret[1].ser, call_msg.d),
                     pke |-> decompress(<<call_ret[1].pke>>, call_msg.d)[1]]>>
  /\ UNCHANGED <<no_session, pc, call_key, call_msg, call_reads, call_trace, call_status>>

NextCompress ==
  \/ CompressCall
  \/ DecompressCall

SpecCompress == InitCompress /\ [][NextCompress]_vars

\* decompress_message(m), then compress_to_message of what it returned
MessageInputs ==
  {Bytes(32, 0), Bytes(32, 255), Bytes(32, 1), Bytes(32, 128), Bytes(32, 170)}
    \cup {RandomBytes(seed, 32) : seed \in 0..MaxMessageSeed}

InitMessage ==
  /\ NoSession
  /\ pc = "idle" /\ call_op = "decompress_message" /\ call_key = <<>>
  /\ call_msg \in MessageInputs
  /\ call_reads = <<>> /\ call_trace = <<>> /\ call_status = "none" /\ call_ret = <<>>

DecompressMessageCall ==
  /\ pc = "idle" /\ call_op = "decompress_message"
  /\ pc' = "returned" /\ call_status' = "ok"
  /\ call_ret' = <<decompress_message(call_msg)>>
  /\ UNCHANGED <<no_session, call_op, call_key, call_msg, call_reads, call_trace>>

CompressToMessageCall ==
  /\ pc = "returned" /\ call_op = "decompress_message"
  /\ call_op' = "decompress_message, compress_to_message"
  /\ call_ret' = <<call_ret[1], compress_to_message(call_ret[1])>>
  /\ UNCHANGED <<no_session, pc, call_key, call_msg, call_reads, call_trace, call_status>>

NextMessage ==
  \/ DecompressMessageCall
  \/ CompressToMessageCall

SpecMessage == InitMessage /\ [][NextMessage]_vars

\* compress_to_message(w) on polynomials whose coefficients take every
\* value of [0, q): coefficient j of input c is (c + 13 j) mod q
ShiftedPoly(c) == [j \in 0..(N - 1) |-> (c + 13 * j) % Q]
RecoverInputs == {ShiftedPoly(c) : c \in 0..MaxShift}

InitRecover ==
  /\ NoSession
  /\ pc = "idle" /\ call_op = "compress_to_message" /\ call_key = <<>>
  /\ call_msg \in RecoverInputs
  /\ call_reads = <<>> /\ call_trace = <<>> /\ call_status = "none" /\ call_ret = <<>>

CompressToMessageDirect ==
  /\ pc = "idle" /\ call_op = "compress_to_message"
  /\ pc' = "returned" /\ call_status' = "ok"
  /\ call_ret' = <<compress_to_message(call_msg)>>
  /\ UNCHANGED <<no_session, call_op, call_key, call_msg, call_reads, call_trace>>

NextRecover ==
  \/ CompressToMessageDirect

SpecRecover == InitRecover /\ [][NextRecover]_vars

\* k_pke_keygen(d), k_pke_encrypt(ek, m, r), k_pke_decrypt(dk, c), as
\* test_k_pke_roundtrip calls them.  key_ek, key_dk hold the K-PKE key
\* pair, enc_ct the ciphertext, call_msg the message and the randomness.
PkeSeeds == {RandomBytes(seed, 32) : seed \in 0..MaxPkeSeed}
PkeMessages == {RandomBytes(5, 32), Bytes(32, 255)}
PkeRandomness == {RandomBytes(6, 32), Bytes(32, 0)}

InitPKE ==
  /\ kem_params \in PARAMETER_SETS /\ oracle_tape = 0 /\ oracle_pos = 0
  /\ threads = <<>> /\ xof_obj = <<>>
  /\ key_ek = <<>> /\ key_dk = <<>> /\ enc_ss = <<>> /\ enc_ct = <<>>
  /\ pc = "idle" /\ call_op = "k_pke_keygen" /\ call_key \in PkeSeeds /\ call_msg = <<>>
  /\ call_reads = <<>> /\ call_trace = <<>> /\ call_status = "none" /\ call_ret = <<>>

\* k_pke_keygen returns only if its matrix sampling comes to an end
KPkeKeygenCall ==
  /\ pc = "idle" /\ call_op = "k_pke_keygen"
  /\ \E res \in {k_pke_keygen(call_key, kem_params)} :
        /\ res.status = "ok"
        /\ key_ek' = res.pk /\ key_dk' = res.sk
        /\ call_ret' = <<res.pk, res.sk>>
  /\ pc' = "returned" /\ call_status' = "ok"
  /\ UNCHANGED <<instance, oracle_pos, enc_ss, enc_ct, call_op, call_key, call_msg,
                 call_reads, call_trace>>

KPkeEncryptCall ==
  /\ pc = "returned" /\ call_op = "k_pke_keygen"
  /\ \E m \in PkeMessages, r \in PkeRandomness :
     \E res \in {k_pke_encrypt(key_ek, m, r, kem_params)} :
        /\ res.status /= "hang"
        /\ call_msg' = [m |-> m, r |-> r]
        /\ call_status' = res.status
        /\ enc_ct' = res.c
        /\ call_ret' = <<res.c>>
  /\ call_op' = "k_pke_encrypt"
  /\ UNCHANGED <<instance, oracle_pos, key_ek, key_dk, enc_ss, pc, call_key,
                 call_reads, call_trace>>

KPkeDecryptCall ==
  /\ pc = "returned" /\ call_op = "k_pke_encrypt" /\ call_status = "ok"
  /\ \E res \in {k_pke_decrypt(key_dk, enc_ct, kem_params)} :
        /\ call_status' = res.status
        /\ call_ret' = <<res.m>>
  /\ call_op' = "k_pke_decrypt"
  /\ UNCHANGED <<instance, oracle_pos, session, pc, call_key, call_msg,
                 call_reads, call_trace>>

NextPKE ==
  \/ KPkeKeygenCall
  \/ KPkeEncryptCall
  \/ KPkeDecryptCall

SpecPKE == InitPKE /\ [][NextPKE]_vars

\* constant_time_compare(a, b) on short byte strings
CompareBytes == {0, 1, 128, 255}
CompareInputs == UNION {[1..n -> CompareBytes] : n \in 0..MaxCompareLen}

InitCompare ==
  /\ NoSession
  /\ pc = "idle" /\ call_op = "constant_time_compare"
  /\ call_key \in CompareInputs /\ call_msg \in CompareInputs
  /\ call_reads = <<>> /\ call_trace = <<>> /\ call_status = "none" /\ call_ret = <<>>

ConstantTimeCompareCall ==
  /\ pc = "idle" /\ call_op = "constant_time_compare"
  /\ pc' = "returned" /\ call_status' = "ok"
  /\ call_ret' = <<constant_time_compare(call_key, call_msg),
                    constant_time_compare_steps(call_key, call_msg)>>
  /\ UNCHANGED <<no_session, call_op, call_key, call_msg, call_reads, call_trace>>

NextCompare ==
  \/ ConstantTimeCompareCall

SpecCompare == InitCompare /\ [][NextCompare]_vars

\* Two XOF objects and the squeeze calls made on them.  call_key holds the
\* (rho, i, j) of each object, call_msg the lengths asked of each so far and
\* call_ret what each squeeze returned.
XofSeeds ==
  {[rho |-> Bytes(32, 0), i |-> 0, j |-> 0],
   [rho |-> Bytes(32, 0), i |-> 0, j |-> 1],
   [rho |-> RandomBytes(2, 32), i |-> 1, j |-> 0]}
SqueezeLengths == {1, 3}

InitXOF ==
  /\ kem_params = ML_KEM_768 /\ oracle_tape = 0 /\ oracle_pos = 0
  /\ key_ek = <<>> /\ key_dk = <<>> /\ enc_ss = <<>> /\ enc_ct = <<>>
  /\ threads = <<>> /\ xof_obj = <<>>
  /\ pc = "idle" /\ call_op = "XOF"
  /\ call_key \in [1..2 -> XofSeeds]
  /\ call_msg = <<>> /\ call_ret = <<>>
  /\ call_reads = <<>> /\ call_trace = <<>> /\ call_status = "none"

\* XOF(rho, i, j), twice
XofCreate ==
  /\ pc = "idle" /\ call_op = "XOF"
  /\ \A n \in 1..2 : ~ XOF_raises(call_key[n].rho, call_key[n].i, call_key[n].j)
  /\ xof_obj' = [n \in 1..2 |-> XOF(call_key[n].rho, call_key[n].i, call_key[n].j)]
  /\ call_msg' = [n \in 1..2 |-> <<>>] /\ call_ret' = [n \in 1..2 |-> <<>>]
  /\ pc' = "running" /\ call_status' = "ok"
  /\ UNCHANGED <<kem_params, oracle_tape, oracle_pos, session, threads, call_op, call_key,
                 call_reads, call_trace>>

\* squeeze(length) on one of the objects; digest() leaves the object as it is
XofSqueeze ==
  /\ pc = "running" /\ call_op = "XOF"
  /\ \E n \in 1..2, length \in SqueezeLengths :
        /\ Len(call_msg[n]) < MaxSqueezes
        /\ call_msg' = [call_msg EXCEPT ![n] = Append(@, length)]
        /\ call_ret' = [call_ret EXCEPT ![n] = Append(@, squeeze(xof_obj[n], length))]
  /\ UNCHANGED <<kem_params, oracle_tape, oracle_pos, session, threads, xof_obj, pc, call_op,
                 call_key, call_reads, call_trace, call_status>>

NextXOF ==
  \/ XofCreate
  \/ XofSqueeze

SpecXOF == InitXOF /\ [][NextXOF]_vars

\* sample_ntt(B), one pass of its `while idx < N` loop at a time.  call_msg
\* holds B, xof_obj the XOF object of the call, call_ret the locals
\* (a_hat, idx) and, after them, the list that was returned.
SampleSeeds == {RandomBytes(seed, 32) : seed \in 0..MaxSampleSeed}
SampleInputs == {rho \o <<i, j>> : rho \in SampleSeeds, i \in 0..1, j \in 0..1}

InitSample ==
  /\ kem_params = ML_KEM_768 /\ oracle_tape = 0 /\ oracle_pos = 0
  /\ key_ek = <<>> /\ key_dk = <<>> /\ enc_ss = <<>> /\ enc_ct = <<>>
  /\ threads = <<>> /\ xof_obj = <<>>
  /\ pc = "idle" /\ call_op = "sample_ntt" /\ call_key = <<>>
  /\ call_msg \in SampleInputs
  /\ call_reads = <<>> /\ call_trace = <<>> /\ call_status = "none" /\ call_ret = <<>>

\* the length check, xof = XOF(rho, i, j), a_hat = [0] * N, idx = 0
SampleNttEnter ==
  /\ pc = "idle" /\ call_op = "sample_ntt"
  /\ ~ sample_ntt_raises(call_msg)
  /\ xof_obj' = <<XOF(Slice(call_msg, 0, 32), call_msg[33], call_msg[34])>>
  /\ call_ret' = <<[a_hat |-> ZeroPoly, idx |-> 0]>>
  /\ pc' = "running"
  /\ UNCHANGED <<kem_params, oracle_tape, oracle_pos, session, threads, call_op, call_key,
                 call_msg, call_reads, call_trace, call_status>>

\* one pass of the loop body: squeeze(3), d1, d2, the two acceptance tests
SampleNttIterate ==
  /\ pc = "running" /\ call_op = "sample_ntt"
  /\ call_ret[1].idx < N
  /\ call_ret' = <<sample_ntt_step(xof_obj[1], call_ret[1])>>
  /\ UNCHANGED <<kem_params, oracle_tape, oracle_pos, session, threads, xof_obj, pc, call_op,
                 call_key, call_msg, call_reads, call_trace, call_status>>

\* the loop condition fails: return a_hat
SampleNttReturn ==
  /\ pc = "running" /\ call_op = "sample_ntt"
  /\ call_ret[1].idx >= N
  /\ call_ret' = <<call_ret[1], call_ret[1].a_hat>>
  /\ pc' = "returned" /\ call_status' = "ok"
  /\ UNCHANGED <<kem_params, oracle_tape, oracle_pos, session, threads, xof_obj, call_op,
                 call_key, call_msg, call_reads, call_trace>>

NextSample ==
  \/ SampleNttEnter
  \/ SampleNttIterate
  \/ SampleNttReturn

SpecSample == InitSample /\ [][NextSample]_vars
\* a call that has started keeps executing its statements
SpecSampleFair == SpecSample /\ WF_vars(NextSample)

\* Two calls of the API running at the same time on one key pair and one
\* ciphertext.  What the calls share: the parameter object, the ek, dk and
\* ct objects (key_ek, key_dk, enc_ct) and the oracle.  What each has of
\* its own (threads[th]): the call, the point it has reached, the
\* arguments as they were when the call was made, its oracle reads, its
\* local variables and what it returned.  A step is a group of statements
\* of the called function; the steps of the two calls interleave freely.
ThreadIds == 1..2
ParOps == {"keygen", "encaps", "decaps"}
shared == <<kem_params, oracle_tape, key_ek, key_dk, enc_ss, enc_ct>>
call_record ==
  <<pc, call_op, call_key, call_msg, call_reads, call_trace, call_status, call_ret, xof_obj>>

ThreadStart(op, ek, dk, ct) ==
  [op |-> op, pc |-> "start",
   key |-> IF op = "encaps" THEN ek ELSE IF op = "decaps" THEN dk ELSE <<>>,
   msg |-> IF op = "decaps" THEN ct ELSE <<>>,
   reads |-> <<>>, loc |-> <<>>, ret |-> <<>>]

\* a key pair and an encapsulation exist (the oracle has been read twice)
InitPar ==
  /\ kem_params = ML_KEM_512 /\ oracle_tape = 0 /\ oracle_pos = 2
  /\ \E kg \in {ml_kem_keygen(random_bytes(0, 1, 32), random_bytes(0, 2, 32), ML_KEM_512)} :
     \E enc \in {ml_kem_encaps_deterministic(kg.ek, Bytes(32, 0), ML_KEM_512)} :
        /\ key_ek = kg.ek /\ key_dk = kg.dk /\ enc_ss = enc.K /\ enc_ct = enc.c
        /\ threads \in [ThreadIds -> {ThreadStart(op, kg.ek, kg.dk, enc.c) : op \in ParOps}]
  /\ xof_obj = <<>>
  /\ pc = "idle" /\ call_op = "none" /\ call_key = <<>> /\ call_msg = <<>>
  /\ call_reads = <<>> /\ call_trace = <<>> /\ call_status = "none" /\ call_ret = <<>>

\* ml_kem_keygen: d = random_bytes(32)
ParKeyGenRead(th) ==
  /\ threads[th].op = "keygen" /\ threads[th].pc = "start"
  /\ threads' = [threads EXCEPT ![th] =
        [@ EXCEPT !.pc = "k_pke_keygen",
                  !.reads = <<random_bytes(oracle_tape, oracle_pos + 1, 32)>>]]
  /\ oracle_pos' = oracle_pos + 1
  /\ UNCHANGED <<shared, call_record>>

\* ml_kem_keygen: ek_pke, dk_pke = k_pke_keygen(d, params)
ParKeyGenPke(th) ==
  /\ threads[th].op = "keygen" /\ threads[th].pc = "k_pke_keygen"
  /\ \E kg \in {k_pke_keygen(threads[th].reads[1], kem_params)} :
        /\ kg.status = "ok"
        /\ threads' = [threads EXCEPT ![th] = [@ EXCEPT !.pc = "finish", !.loc = kg]]
  /\ UNCHANGED <<shared, oracle_pos, call_record>>

\* a variant that keeps the new key pair in the objects the calls share
ParKeyGenFinishStoring(th) ==
  /\ threads[th].op = "keygen" /\ threads[th].pc = "finish"
  /\ \E z \in {random_bytes(oracle_tape, oracle_pos + 1, 32)} :
     \E dk \in {construct_decapsulation_key(threads[th].loc.sk, threads[th].loc.pk,
                                             H(threads[th].loc.pk), z)} :
        /\ threads' = [threads EXCEPT ![th] =
              [@ EXCEPT !.pc = "done", !.reads = Append(@, z), !.loc = <<>>,
                        !.ret = <<threads[th].loc.pk, dk>>]]
        /\ key_ek' = threads[th].loc.pk /\ key_dk' = dk
  /\ oracle_pos' = oracle_pos + 1
  /\ UNCHANGED <<kem_params, oracle_tape, enc_ss, enc_ct, call_record>>

\* ml_kem_keygen: z = random_bytes(32), H(ek_pke), the dk is built, return
ParKeyGenFinish(th) ==
  /\ threads[th].op = "keygen" /\ threads[th].pc = "finish"
  /\ \E z \in {random_bytes(oracle_tape, oracle_pos + 1, 32)} :
     \E dk \in {construct_decapsulation_key(threads[th].loc.sk, threads[th].loc.pk,
                                             H(threads[th].loc.pk), z)} :
        threads' = [threads EXCEPT ![th] =
          [@ EXCEPT !.pc = "done", !.reads = Append(@, z), !.loc = <<>>,
                    !.ret = <<threads[th].loc.pk, dk>>]]
  /\ oracle_pos' = oracle_pos + 1
  /\ UNCHANGED <<shared, call_record>>

\* ml_kem_encaps: the length check of ek, m = random_bytes(32)
ParEncapsRead(th) ==
  /\ threads[th].op = "encaps" /\ threads[th].pc = "start"
  /\ IF Len(key_ek) /= pk_bytes(kem_params)
     THEN /\ threads' = [threads EXCEPT ![th] = [@ EXCEPT !.pc = "done", !.ret = <<"ValueError">>]]
          /\ UNCHANGED oracle_pos
     ELSE /\ threads' = [threads EXCEPT ![th] =
                [@ EXCEPT !.pc = "finish",
                          !.reads = <<random_bytes(oracle_tape, oracle_pos + 1, 32)>>]]
          /\ oracle_pos' = oracle_pos + 1
  /\ UNCHANGED <<shared, call_record>>

\* ml_kem_encaps: H(ek), G, k_pke_encrypt(ek, m, r), return
ParEncapsFinish(th) ==
  /\ threads[th].op = "encaps" /\ threads[th].pc = "finish"
  /\ \E enc \in {ml_kem_encaps(key_ek, threads[th].reads[1], kem_params)} :
        /\ enc.status = "ok"
        /\ threads' = [threads EXCEPT ![th] = [@ EXCEPT !.pc = "done", !.ret = <<enc.K, enc.c>>]]
  /\ UNCHANGED <<shared, oracle_pos, call_record>>

\* ml_kem_decaps: the length checks, parse_decapsulation_key(dk),
\* m' = k_pke_decrypt(dk_pke, c)
ParDecapsDecrypt(th) ==
  /\ threads[th].op = "decaps" /\ threads[th].pc = "start"
  /\ IF Len(key_dk) /= sk_bytes(kem_params) \/ Len(enc_ct) /= ct_bytes(kem_params)
     THEN threads' = [threads EXCEPT ![th] = [@ EXCEPT !.pc = "done", !.ret = <<"ValueError">>]]
     ELSE \E key \in {parse_decapsulation_key(key_dk, kem_params)} :
          \E dec \in {k_pke_decrypt(key.dk_pke, enc_ct, kem_params)} :
             /\ dec.status = "ok"
             /\ threads' = [threads EXCEPT ![th] =
                   [@ EXCEPT !.pc = "k_pke_encrypt", !.loc = [key |-> key, m_prime |-> dec.m]]]
  /\ UNCHANGED <<shared, oracle_pos, call_record>>

\* ml_kem_decaps: (K', r') = G(m' || h), c' = k_pke_encrypt(ek_pke, m', r')
ParDecapsReencrypt(th) ==
  /\ threads[th].op = "decaps" /\ threads[th].pc = "k_pke_encrypt"
  /\ \E g_output \in {G(threads[th].loc.m_prime \o threads[th].loc.key.ek_pke_hash)} :
     \E enc \in {k_pke_encrypt(threads[th].loc.key.ek_pke, threads[th].loc.m_prime,
                                Slice(g_output, 32, 64), kem_params)} :
        /\ enc.status = "ok"
        /\ threads' = [threads EXCEPT ![th] =
              [@ EXCEPT !.pc = "finish",
                        !.loc = [z |-> threads[th].loc.key.z,
                                 K_prime |-> Slice(g_output, 0, 32), c_prime |-> enc.c]]]
  /\ UNCHANGED <<shared, oracle_pos, call_record>>

\* ml_kem_decaps: the comparison of c with c' and the return
ParDecapsSelect(th) ==
  /\ threads[th].op = "decaps" /\ threads[th].pc = "finish"
  /\ threads' = [threads EXCEPT ![th] =
        [@ EXCEPT !.pc = "done", !.loc = <<>>,
                  !.ret = IF constant_time_compare(enc_ct, threads[th].loc.c_prime)
                          THEN <<threads[th].loc.K_prime>>
                          ELSE <<J(threads[th].loc.z \o enc_ct)>>]]
  /\ UNCHANGED <<shared, oracle_pos, call_record>>

NextPar ==
  \E th \in ThreadIds :
    \/ ParKeyGenRead(th)
    \/ ParKeyGenPke(th)
    \/ ParKeyGenFinish(th)
    \/ ParEncapsRead(th)
    \/ ParEncapsFinish(th)
    \/ ParDecapsDecrypt(th)
    \/ ParDecapsReencrypt(th)
    \/ ParDecapsSelect(th)

SpecPar == InitPar /\ [][NextPar]_vars

(***************************************************************************)
(* Properties                                                              *)
(***************************************************************************)
Returned(op) == pc = "returned" /\ call_op = op
ReturnedOk(op) == Returned(op) /\ call_status = "ok"
RightLengths ==
  Len(call_key) = sk_bytes(kem_params) /\ Len(call_msg) = ct_bytes(kem_params)
HonestDecaps == Returned("decaps") /\ enc_ct /= <<>> /\ call_key = key_dk

\* C1: KEM round trip.  Decapsulating, with the dk of the key pair, the
\* ciphertext that ml_kem_encaps or ml_kem_encaps_deterministic returned
\* for the ek of that pair returns exactly the shared secret of that call.
C1_RoundTrip ==
  (HonestDecaps /\ call_msg = enc_ct) => (call_status = "ok" /\ call_ret = <<enc_ss>>)

C1_Witness ==
  HonestDecaps /\ call_msg = enc_ct /\ call_ret = <<enc_ss>> /\ Len(enc_ss) = 32

\* the value the selection rule of implicit rejection names for (dk, c):
\* m' = k_pke_decrypt(dk_PKE, c), (K', r') = the halves of G(m' || h),
\* c' = k_pke_encrypt(ek_PKE, m', r'); K' if c' = c, SHAKE256(z || c, 32)
\* otherwise.  The fields of dk are taken by their offsets.
SelectionRule(dk, c, params) ==
  Bind(384 * params.k, LAMBDA n :
  Bind(Slice(dk, n, 2 * n + 32), LAMBDA ek_pke :
  Bind(Force(k_pke_decrypt(Slice(dk, 0, n), c, params).m), LAMBDA m_prime :
  Bind(sha3_512(m_prime \o Slice(dk, 2 * n + 32, 2 * n + 64)), LAMBDA g_output :
  Bind(k_pke_encrypt(ek_pke, m_prime, Slice(g_output, 32, 64), params).c, LAMBDA c_prime :
    IF c_prime = c THEN Slice(g_output, 0, 32)
    ELSE shake256(Slice(dk, 2 * n + 64, 2 * n + 96) \o c, 32))))))

\* C2: implicit-rejection selection rule.  A decapsulation of a dk of
\* sk_bytes and a c of ct_bytes that returns does not raise, and returns K'
\* if the re-encryption c' equals c and J(z || c) in every other case.
C2_SelectionRule ==
  (Returned("decaps") /\ RightLengths) =>
    (call_status = "ok" /\ call_ret = <<SelectionRule(call_key, call_msg, kem_params)>>)

C2_Witness ==
  /\ HonestDecaps /\ RightLengths /\ call_msg /= enc_ct
  /\ call_ret = <<shake256(Slice(call_key, Len(call_key) - 32, Len(call_key)) \o call_msg, 32)>>

\* C3: a tampered ciphertext never yields the honest secret.  For the key
\* pair and its encapsulation (ss, ct), decapsulating any ct' of ct_bytes
\* other than ct returns a value different from ss.
C3_TamperedNeverHonest ==
  (HonestDecaps /\ RightLengths /\ call_msg /= enc_ct) =>
    (call_status = "ok" /\ call_ret /= <<enc_ss>>)

C3_Witness ==
  /\ HonestDecaps /\ call_msg = FlipBits(enc_ct, 1, 1)
  /\ call_status = "ok" /\ Len(call_ret[1]) = 32 /\ call_ret[1] /= enc_ss

\* C4: decapsulation is total.  Every call of ml_kem_decaps that has passed
\* the two length checks comes to its return (the matrix sampling of the
\* re-encryption ends, so that DecapsReturn is enabled), and what it
\* returns is a value of exactly 32 bytes and no exception.
C4_DecapsTotal ==
  /\ (pc = "running" /\ call_op = "decaps") =>
       ml_kem_decaps(call_key, call_msg, kem_params).status /= "hang"
  /\ (Returned("decaps") /\ RightLengths) => (call_status = "ok" /\ Len(call_ret[1]) = 32)

LengthError(op, key, msg, params) ==
  \/ op = "decaps" /\ (Len(key) /= sk_bytes(params) \/ Len(msg) /= ct_bytes(params))
  \/ op = "encaps" /\ Len(key) /= pk_bytes(params)
  \/ op = "encaps_det" /\ (Len(key) /= pk_bytes(params) \/ Len(msg) /= 32)

\* C5: length validation.  A call of ml_kem_decaps, ml_kem_encaps or
\* ml_kem_encaps_deterministic with an argument of the wrong length ends in
\* one step with ValueError, before any oracle read and before any hashing,
\* decryption or encryption: the oracle is where it was, and such a call is
\* never found past its checks.
C5_LengthValidation ==
  [][/\ (pc' = "returned" /\ LengthError(call_op', call_key', call_msg', kem_params)) =>
          /\ pc = "idle"
          /\ call_status' = "ValueError"
          /\ call_reads' = <<>> /\ call_trace' = <<>>
          /\ oracle_pos' = oracle_pos
     /\ pc' = "running" => ~ LengthError(call_op', call_key', call_msg', kem_params)
    ]_vars

C5_Witness ==
  /\ Returned("encaps") /\ call_status = "ValueError"
  /\ Len(call_key) = pk_bytes(kem_params) + 1
  /\ call_reads = <<>> /\ oracle_pos = 2

\* the 12-bit field number i (from 0) of an encoded vector
Field12(ek, i) ==
  LET o == 3 * (i \div 2)
  IN IF i % 2 = 0 THEN ek[o + 1] + 256 * (ek[o + 2] % 16)
     ELSE (ek[o + 2] \div 16) + 16 * ek[o + 3]
HasBadCoefficient(ek, params) ==
  \E i \in 0..(N * params.k - 1) : Field12(ek, i) >= Q

\* C6: the modulus check of encapsulation.  Given an ek of pk_bytes in
\* which a 12-bit field of the first 384k bytes is >= q, ml_kem_encaps and
\* ml_kem_encaps_deterministic fail and return no (ss, ct) pair.
C6_ModulusCheck ==
  (/\ pc = "returned"
   /\ call_op = "encaps" \/ (call_op = "encaps_det" /\ Len(call_msg) = 32)
   /\ Len(call_key) = pk_bytes(kem_params)
   /\ HasBadCoefficient(call_key, kem_params))
    => (call_status = "InvalidCoefficient" /\ call_ret = <<>>)

\* the last n outputs of the oracle up to position p
OracleReads(p, n) == [i \in 1..n |-> random_bytes(oracle_tape, p - n + i, 32)]

\* C7: randomness-oracle usage.  A key generation that returns has read the
\* oracle exactly twice, 32 bytes each, the first read being the K-PKE seed
\* d and the second z; an encapsulation that returns has read it exactly
\* once; no step of ml_kem_decaps or ml_kem_encaps_deterministic moves the
\* oracle; and the oracle moves by exactly the reads a step logs.
C7_OracleUsage ==
  [][/\ (pc' = "returned" /\ call_op' = "keygen" /\ call_status' = "ok") =>
          /\ call_reads' = OracleReads(oracle_pos', 2)
          /\ call_ret'[1] = k_pke_keygen(call_reads'[1], kem_params).pk
          /\ Slice(call_ret'[2], Len(call_ret'[2]) - 32, Len(call_ret'[2])) = call_reads'[2]
     /\ (pc' = "returned" /\ call_op' = "encaps" /\ call_status' = "ok") =>
          call_reads' = OracleReads(oracle_pos', 1)
     /\ call_op' \in {"decaps", "encaps_det"} =>
          (oracle_pos' = oracle_pos /\ call_reads' = <<>>)
     /\ pc' /= "idle" => oracle_pos' - oracle_pos = Len(call_reads') - Len(call_reads)
     /\ pc' = "idle" => oracle_pos' = oracle_pos
    ]_vars

C7_Witness ==
  /\ ReturnedOk("keygen") /\ Len(call_reads) = 2 /\ call_reads[1] /= call_reads[2]
  /\ oracle_pos = 2

C9_OutputSizes ==
  /\ ReturnedOk("keygen") =>
       /\ Len(call_ret[1]) = 384 * kem_params.k + 32
       /\ Len(call_ret[2]) = 768 * kem_params.k + 96
       /\ <<Len(call_ret[1]), Len(call_ret[2])>> = <<pk_bytes(kem_params), sk_bytes(kem_params)>>
  /\ (ReturnedOk("encaps") \/ ReturnedOk("encaps_det")) =>
       /\ Len(call_ret[1]) = 32
       /\ Len(call_ret[2]) = 32 * (kem_params.du * kem_params.k + kem_params.dv)
       /\ Len(call_ret[2]) = ct_bytes(kem_params)
  /\ <<pk_bytes(kem_params), sk_bytes(kem_params), ct_bytes(kem_params)>> =
       (CASE kem_params.name = "ML-KEM-512" -> <<800, 1632, 768>>
          [] kem_params.name = "ML-KEM-768" -> <<1184, 2400, 1088>>
          [] kem_params.name = "ML-KEM-1024" -> <<1568, 3168, 1568>>)

C9_Witness ==
  /\ ReturnedOk("encaps") /\ kem_params = ML_KEM_1024
  /\ Len(call_ret[2]) = 1568 /\ Len(key_ek) = 1568 /\ Len(key_dk) = 3168

\* C10: decapsulation-key layout.  The dk that ml_kem_keygen returns is
\* dk_PKE || ek_PKE || H(ek_PKE) || z with ek_PKE the returned ek;
\* parse_decapsulation_key recovers these four fields, of 384k, 384k+32, 32
\* and 32 bytes, and is the inverse of construct_decapsulation_key on them;
\* the hash field is SHA3-256 of the ek_PKE field of the same dk.
C10_KeyLayout ==
  ReturnedOk("keygen") =>
    Bind(parse_decapsulation_key(call_ret[2], kem_params), LAMBDA key :
      /\ ~ parse_decapsulation_key_raises(call_ret[2], kem_params)
      /\ key.ek_pke = call_ret[1]
      /\ key.dk_pke = k_pke_keygen(call_reads[1], kem_params).sk
      /\ key.ek_pke_hash = sha3_256(key.ek_pke)
      /\ key.z = call_reads[2]
      /\ <<Len(key.dk_pke), Len(key.ek_pke), Len(key.ek_pke_hash), Len(key.z)>>
           = <<384 * kem_params.k, 384 * kem_params.k + 32, 32, 32>>
      /\ call_ret[2] = key.dk_pke \o key.ek_pke \o key.ek_pke_hash \o key.z
      /\ construct_decapsulation_key(key.dk_pke, key.ek_pke, key.ek_pke_hash, key.z) = call_ret[2]
      /\ parse_decapsulation_key(
           construct_decapsulation_key(key.dk_pke, key.ek_pke, key.ek_pke_hash, key.z),
           kem_params) = key)

C10_Witness ==
  /\ ReturnedOk("keygen") /\ Len(call_ret[2]) = sk_bytes(kem_params)
  /\ parse_decapsulation_key(call_ret[2], kem_params).ek_pke = call_ret[1]

\* C11: NTT inversion.  For a polynomial f of 256 coefficients in [0, q),
\* ntt_inverse(ntt(f)) is f, coefficient for coefficient.
C11_NttInversion ==
  (pc = "returned" /\ call_op = "ntt_inverse") => call_ret[2] = call_msg

C11_Witness ==
  /\ pc = "returned" /\ call_op = "ntt_inverse"
  /\ call_msg = RandomPoly(1) /\ call_ret[1] /= call_msg /\ call_ret[2] = RandomPoly(1)

\* C12 as stated: ntt of the constant polynomial 1 = [1, 0, ..., 0] is the
\* vector of 256 ones.
C12_NttOfOneAllOnes ==
  (pc = "returned" /\ call_op = "ntt" /\ call_msg = Monomial(0, 1)) =>
    call_ret[1] = ConstantPoly(1)

\* C12 amended: ntt of the constant polynomial 1 is [1, 0, 1, 0, ..., 1, 0]:
\* each of the 128 residues modulo a quadratic factor is the degree-one
\* polynomial 1 + 0 X.
C12_NttOfOne ==
  (pc = "returned" /\ call_op = "ntt" /\ call_msg = Monomial(0, 1)) =>
    call_ret[1] = [j \in 0..(N - 1) |-> IF j % 2 = 0 THEN 1 ELSE 0]

C12_Witness ==
  /\ pc = "returned" /\ call_op = "ntt" /\ call_msg = Monomial(0, 1)
  /\ call_ret[1][0] = 1 /\ call_ret[1][1] = 0 /\ call_ret[1][254] = 1 /\ call_ret[1][255] = 0

\* the d-bit field number i (from 0) of a byte string, read little-endian
FieldOf(B, d, i) ==
  LET RECURSIVE value(_)
      value(j) ==
        IF j >= d THEN 0
        ELSE ((B[((i * d + j) \div 8) + 1] \div Pow2((i * d + j) % 8)) % 2) * Pow2(j) + value(j + 1)
  IN value(0)
FieldsInRange(B, d) == \A i \in 0..(N - 1) : FieldOf(B, d, i) < CodecModulus(d)

\* C13: codec inversion.  For d in 1..12 and an array F of 256 integers in
\* [0, m), byte_decode(byte_encode(F, d), d) = F; for a string B of 32 d
\* bytes whose d-bit fields are all in [0, m), byte_encode(byte_decode(B, d),
\* d) = B.
C13_CodecInversion ==
  /\ (pc = "returned" /\ call_op = "byte_encode") => call_status = "ok"
  /\ (pc = "returned" /\ call_op = "byte_encode, byte_decode") => call_ret[2] = call_msg.F
  /\ (pc = "returned" /\ call_op = "byte_decode") => call_status = "ok"
  /\ (pc = "returned" /\ call_op = "byte_decode, byte_encode"
        /\ FieldsInRange(call_msg.B, call_msg.d)) => call_ret[2] = call_msg.B

C13_Witness ==
  /\ pc = "returned" /\ call_op = "byte_decode, byte_encode"
  /\ call_msg.d = 12 /\ call_msg.B = RandomBytesBelowQ(1) /\ FieldsInRange(call_msg.B, 12)
  /\ call_ret[2] = call_msg.B /\ call_ret[1][0] = FieldOf(call_msg.B, 12, 0)

\* the distance of a and b modulo q, and the bound ceil(q / 2^(d+1))
DistanceModQ(a, b) ==
  LET t == (a - b) % Q
  IN IF t <= Q - t THEN t ELSE Q - t
CompressionBound(d) == (Q + Pow2(d + 1) - 1) \div Pow2(d + 1)

\* C14: compression bound.  For d in 1..11 and x in [0, q), the distance
\* modulo q between x and Decompress_d(Compress_d(x)) is at most
\* ceil(q / 2^(d+1)), for the integer functions of utils.serialization and
\* for the pair K-PKE calls.
C14_CompressionBound ==
  (pc = "returned" /\ call_op = "compress, decompress") =>
    /\ DistanceModQ(call_msg.x, call_ret[2].ser) <= CompressionBound(call_msg.d)
    /\ DistanceModQ(call_msg.x, call_ret[2].pke) <= CompressionBound(call_msg.d)

C14_Witness ==
  /\ pc = "returned" /\ call_op = "compress, decompress"
  /\ call_msg = [x |-> 3328, d |-> 11]
  /\ call_ret[1].ser = 2047 /\ call_ret[2].ser = 3327 /\ call_ret[2].pke = 3327

\* C15: message codec round trip.  For a 32-byte message m every
\* coefficient of decompress_message(m) is 0 or floor(q / 2) = 1664, and
\* compress_to_message(decompress_message(m)) = m.
C15_MessageRoundTrip ==
  /\ (pc = "returned" /\ call_op = "decompress_message") =>
       /\ DOMAIN call_ret[1] = 0..(N - 1)
       /\ \A i \in 0..(N - 1) : call_ret[1][i] \in {0, 1664}
  /\ (pc = "returned" /\ call_op = "decompress_message, compress_to_message") =>
       call_ret[2] = call_msg

C15_Witness ==
  /\ pc = "returned" /\ call_op = "decompress_message, compress_to_message"
  /\ call_msg = RandomBytes(3, 32) /\ call_ret[2] = call_msg
  /\ \E i, j \in 0..(N - 1) : call_ret[1][i] = 0 /\ call_ret[1][j] = 1664

\* C16: K-PKE round trip.  With (ek, dk) = k_pke_keygen(d, params), the
\* ciphertext c = k_pke_encrypt(ek, m, r, params) has ct_bytes bytes and
\* k_pke_decrypt(dk, c, params) returns a 32-byte value equal to m.
C16_PkeRoundTrip ==
  /\ (pc = "returned" /\ call_op = "k_pke_encrypt") =>
       (call_status = "ok" /\ Len(enc_ct) = ct_bytes(kem_params))
  /\ (pc = "returned" /\ call_op = "k_pke_decrypt") =>
       (call_status = "ok" /\ Len(call_ret[1]) = 32 /\ call_ret[1] = call_msg.m)

C16_Witness ==
  /\ pc = "returned" /\ call_op = "k_pke_decrypt" /\ kem_params = ML_KEM_768
  /\ call_msg.m = RandomBytes(5, 32) /\ call_ret = <<RandomBytes(5, 32)>>
  /\ Len(enc_ct) = 1088 /\ Len(key_ek) = 1184 /\ Len(key_dk) = 1152

\* C17: constant-time equality.  constant_time_compare(a, b) is True if and
\* only if len(a) = len(b) and every position holds equal bytes; for inputs
\* of equal length the loop visits every one of the len(a) positions, so
\* the number of its passes depends on len(a) only.
C17_ConstantTimeCompare ==
  (pc = "returned" /\ call_op = "constant_time_compare") =>
    /\ call_ret[1] = (/\ Len(call_key) = Len(call_msg)
                      /\ \A i \in 1..Len(call_key) : call_key[i] = call_msg[i])
    /\ Len(call_key) = Len(call_msg) => call_ret[2] = Len(call_key)

C17_Witness ==
  /\ pc = "returned" /\ call_op = "constant_time_compare"
  /\ call_key = <<1, 255>> /\ call_msg = <<128, 255>>
  /\ call_ret = <<FALSE, 2>>

\* the primitive operations a decapsulation that computes both candidate
\* outputs executes
BothCandidates == <<"k_pke_decrypt", "G", "k_pke_encrypt", "constant_time_compare", "J">>

\* C18: constant-time selection in Decaps.  Every ml_kem_decaps call with
\* inputs of the right lengths computes both K' and J(z || c) whatever the
\* comparison gives, so the primitive operations executed are the same
\* for an accepted and for a rejected ciphertext.
C18_ConstantTimeSelection ==
  (ReturnedOk("decaps") /\ RightLengths) => call_trace = BothCandidates

\* the sum of the first t lengths
RECURSIVE SumOfLengths(_, _)
SumOfLengths(lengths, t) ==
  IF t <= 0 THEN 0 ELSE lengths[t] + SumOfLengths(lengths, t - 1)

\* C20: incremental XOF.  The t-th squeeze of one XOF(rho, i, j) object
\* returns the bytes of SHAKE-128(rho || i || j) at the offsets
\* [n_1 + ... + n_(t-1), n_1 + ... + n_t): the outputs of one object,
\* concatenated, are a prefix of the stream, whatever is done with the
\* other object.
C20_IncrementalXof ==
  (pc = "running" /\ call_op = "XOF") =>
    \A n \in 1..2 : \A t \in 1..Len(call_ret[n]) :
      call_ret[n][t] =
        Slice(shake128(call_key[n].rho \o <<call_key[n].i, call_key[n].j>>,
                       SumOfLengths(call_msg[n], t)),
              SumOfLengths(call_msg[n], t - 1), SumOfLengths(call_msg[n], t))

\* what the call of a thread returns when it runs alone on the arguments it
\* was called with and the oracle bytes it read
Alone(call, params) ==
  CASE call.op = "keygen" ->
         Bind(ml_kem_keygen(call.reads[1], call.reads[2], params), LAMBDA kg : <<kg.ek, kg.dk>>)
    [] call.op = "encaps" ->
         Bind(ml_kem_encaps(call.key, call.reads[1], params), LAMBDA enc : <<enc.K, enc.c>>)
    [] call.op = "decaps" -> <<ml_kem_decaps(call.key, call.msg, params).K>>

\* C19: parallelism.  No step of a call writes what the calls share (the
\* parameter object, the ek, dk and ct objects), and under every
\* interleaving of two concurrent calls of keygen / encaps / decaps,
\* calls on the same ek or dk included, each call returns what it returns
\* when it runs alone with the same oracle bytes.
C19_Parallelism ==
  threads /= <<>> =>
    /\ kem_params = ML_KEM_512
    /\ \A th \in ThreadIds :
          /\ threads[th].op = "encaps" => threads[th].key = key_ek
          /\ threads[th].op = "decaps" =>
               (threads[th].key = key_dk /\ threads[th].msg = enc_ct)
          /\ threads[th].pc = "done" => threads[th].ret = Alone(threads[th], kem_params)

C19_Witness ==
  /\ threads /= <<>>
  /\ threads[1].op = "decaps" /\ threads[1].pc = "done" /\ threads[1].ret = <<enc_ss>>
  /\ threads[2].op = "keygen" /\ threads[2].pc = "done" /\ Len(threads[2].ret[2]) = 1632
  /\ oracle_pos = 4

\* The SHAKE-128 stream of B read as FIPS 203 reads it: group g (g = 0, 1, ...)
\* is bytes 3g+1 .. 3g+3 of the stream.  StreamStep is one pass of rejection
\* sampling on group g; StreamScan makes the passes for groups g .. g+n-1.
StreamStep(stream, st, g) ==
  IF st.idx >= N THEN st
  ELSE LET d1 == stream[3 * g + 1] + 256 * (stream[3 * g + 2] % 16)
           d2 == (stream[3 * g + 2] \div 16) + 16 * stream[3 * g + 3]
           a1 == IF d1 < Q THEN [st.a_hat EXCEPT ![st.idx] = d1] ELSE st.a_hat
           idx1 == IF d1 < Q THEN st.idx + 1 ELSE st.idx
           a2 == IF d2 < Q /\ idx1 < N THEN [a1 EXCEPT ![idx1] = d2] ELSE a1
           idx2 == IF d2 < Q /\ idx1 < N THEN idx1 + 1 ELSE idx1
       IN [a_hat |-> a2, idx |-> idx2]

RECURSIVE StreamScan(_, _, _, _)
StreamScan(stream, st, g, n) ==
  IF n <= 0 THEN st
  ELSE IF n = 1 THEN StreamStep(stream, st, g)
  ELSE LET half == StreamScan(stream, st, g, n \div 2)
       IN IF half = half THEN StreamScan(stream, half, g + n \div 2, n - n \div 2) ELSE half

\* the first N accepted candidates of the first MaxGroups groups of the stream
RejectionSample(B) ==
  StreamScan(Force(shake128(B, 3 * MaxGroups)), [a_hat |-> ZeroPoly, idx |-> 0], 0, MaxGroups)
\* B is a 34-byte input whose stream holds at least N accepted candidates
\* (in its first MaxGroups groups)
EnoughAccepted(B) == Len(B) = 34 /\ RejectionSample(B).idx >= N
\* both candidates of the first group of the stream are rejected
FirstGroupRejected(B) ==
  Len(B) = 34 /\ StreamStep(shake128(B, 3), [a_hat |-> ZeroPoly, idx |-> 0], 0).idx = 0

\* C21: SampleNTT terminates.  A call of sample_ntt on a 34-byte input whose
\* SHAKE-128 stream holds at least 256 accepted candidates returns in the end,
\* also when both candidates of the first 3-byte group are rejected.
C21_SampleNttTerminates ==
  (pc = "idle" /\ call_op = "sample_ntt" /\ EnoughAccepted(call_msg)) ~> (pc = "returned")

\* C22: SampleNTT is order-preserving rejection sampling.  Whenever sample_ntt
\* returns, its n-th coefficient is the n-th accepted candidate (< q) of the
\* sequence d1, d2, d1, d2, ... of the consecutive 3-byte groups of the
\* SHAKE-128 stream of its input, and so lies in [0, q).
C22_SampleNttOrder ==
  (pc = "returned" /\ call_op = "sample_ntt") =>
     /\ \A n \in 0..(N - 1) : call_ret[2][n] \in 0..(Q - 1)
     /\ EnoughAccepted(call_msg) => call_ret[2] = RejectionSample(call_msg).a_hat

\* a call of k_pke_keygen(call_key, kem_params) has returned (key_ek, key_dk)
KeygenReturned == pc = "returned" /\ call_op = "k_pke_keygen" /\ key_ek /= <<>>
\* a call of k_pke_encrypt(key_ek, call_msg.m, call_msg.r, kem_params) has returned
EncryptReturned == pc = "returned" /\ call_op = "k_pke_encrypt" /\ call_status = "ok"

\* the locals s, e, s_hat, e_hat, t_hat of the call k_pke_keygen(d, params)
KeygenLocals(d, params) ==
  LET seeds == k_pke_keygen_expand(d, params)
      A == sample_matrix_A(seeds.rho, params.k)
  IN k_pke_keygen_vectors(A.A_hat, seeds.sigma, params)

\* C23: K-PKE.KeyGen seed expansion.  k_pke_keygen(d, params) takes rho and
\* sigma as the two 32-byte halves of G(d || [k]), k the module dimension of
\* params; so one d gives different (rho, sigma) under parameter sets with
\* different k.
C23_SeedExpansion ==
  KeygenReturned =>
    LET k == kem_params.k
        expanded == G(call_key \o <<k>>)
        seeds == k_pke_keygen_expand(call_key, kem_params)
    IN /\ seeds = [rho |-> Slice(expanded, 0, 32), sigma |-> Slice(expanded, 32, 64)]
       /\ parse_public_key(key_ek, k).rho = Slice(expanded, 0, 32)
       /\ \A p \in PARAMETER_SETS : p.k /= k => k_pke_keygen_expand(call_key, p) /= seeds

\* C24: K-PKE decapsulation-key encoding.  The dk_PKE that k_pke_keygen
\* returns is ByteEncode_12 of the k polynomials of s-hat = NTT(s), and
\* k_pke_decrypt multiplies ByteDecode_12(dk_PKE) itself, with no further
\* transform, with NTT(u).
C24_DkEncoding ==
  KeygenReturned =>
    LET k == kem_params.k
        v == KeygenLocals(call_key, kem_params)
    IN /\ key_dk = encode_vector([i \in 0..(k - 1) |-> ntt(v.s[i])], k, 12)
       /\ k_pke_decrypt_s_hat(key_dk, kem_params) = parse_secret_key(key_dk, k)

\* the CBD polynomials that PRF input (r, nonce) gives for eta, nonce in nonces
CbdOf(r, nonces, eta) == {sample_poly_cbd(r, nonce, eta) : nonce \in nonces}

\* C25: noise parameter of r1 in Encrypt.  For every parameter set (also
\* ML-KEM-512, eta1 = 3, eta2 = 2) k_pke_encrypt samples each r1[i] with
\* eta1, and e1 and e2 with eta2.
C25_NoiseParameters ==
  EncryptReturned =>
    LET k == kem_params.k
        r == call_msg.r
        noise == k_pke_encrypt_noise(r, kem_params)
    IN /\ \A i \in 0..(k - 1) : noise.r1[i] = sample_poly_cbd(r, i, kem_params.eta1)
       /\ \A i \in 0..(k - 1) : noise.e1[i] \in CbdOf(r, 0..(2 * k), kem_params.eta2)
       /\ noise.r2 \in CbdOf(r, 0..(2 * k), kem_params.eta2)

\* C26: nonce schedule in Encrypt.  In one k_pke_encrypt call r1[i] is drawn
\* with PRF nonce i, e1[i] with nonce k+i and e2 with nonce 2k: the 2k+1
\* noise polynomials use the 2k+1 distinct nonces 0..2k, and e2 is never
\* drawn from the PRF input of an e1[i].
C26_NonceSchedule ==
  EncryptReturned =>
    LET k == kem_params.k
        r == call_msg.r
        noise == k_pke_encrypt_noise(r, kem_params)
    IN /\ \A i \in 0..(k - 1) :
            \E eta \in {2, 3} : noise.r1[i] = sample_poly_cbd(r, i, eta)
       /\ \A i \in 0..(k - 1) :
            \E eta \in {2, 3} : noise.e1[i] = sample_poly_cbd(r, k + i, eta)
       /\ \E eta \in {2, 3} : noise.r2 = sample_poly_cbd(r, 2 * k, eta)
       /\ \A i \in 0..(k - 1) : noise.r2 /= noise.e1[i]

\* C30: secret-key domain consistency along keygen -> serialize -> parse ->
\* decrypt.  For every seed d whose key generation returns, the vector that
\* k_pke_decrypt multiplies with NTT(u) is NTT(s) for the s sampled in
\* k_pke_keygen(d) (the transform is applied once: not to s itself, not
\* twice), and the t-hat stored in ek is A-hat o NTT(s) + NTT(e) for that s.
C30_SecretKeyDomain ==
  KeygenReturned =>
    LET k == kem_params.k
        v == KeygenLocals(call_key, kem_params)
        ntt_s == Force([i \in 0..(k - 1) |-> ntt(v.s[i])])
        pub == parse_public_key(key_ek, k)
        A_hat == sample_matrix_A(pub.rho, k).A_hat
        As == matrix_vector_mul_ntt(A_hat, ntt_s, k)
        used == k_pke_decrypt_s_hat(key_dk, kem_params)
    IN /\ used = ntt_s
       /\ used /= v.s
       /\ used /= [i \in 0..(k - 1) |-> ntt(ntt_s[i])]
       /\ pub.t_hat = [i \in 0..(k - 1) |-> add_poly(As[i], ntt(v.e[i]), Q)]

\* a key pair of ML-KEM-1024 has been generated; its dk holds four
\* polynomials, which decryption transforms
C30_Witness ==
  /\ KeygenReturned /\ kem_params = ML_KEM_1024
  /\ Len(key_dk) = 1536 /\ Len(key_ek) = 1568
  /\ k_pke_decrypt_s_hat(key_dk, kem_params) /= parse_secret_key(key_dk, 4)

\* bit i (little-endian within each byte) of a 32-byte message
MessageBit(m, i) == (m[(i \div 8) + 1] \div Pow2(i % 8)) % 2
\* Compress_1 and Decompress_d as the integer formulas of FIPS 203
Compress1(x) == ((2 * x + Q \div 2) \div Q) % 2
DecompressInteger(y, d) == (y * Q + Pow2(d - 1)) \div Pow2(d)

\* C27: message recovery is Compress_1.  For every polynomial w with
\* coefficients in [0, q), bit i of compress_to_message(w) is
\* ((2 w[i] + floor(q/2)) div q) mod 2, at the interval boundaries 832, 833,
\* 2496 and 2497 too.
C27_MessageRecovery ==
  (pc = "returned" /\ call_op = "compress_to_message") =>
     \A i \in 0..(N - 1) : MessageBit(call_ret[1], i) = Compress1(call_msg[i])

\* C28: integer-exact Decompress.  For every d in 1..11 and y in [0, 2^d) the
\* decompress that k_pke_decrypt applies to ciphertext coefficients returns
\* (y q + 2^(d-1)) div 2^d, at the tie y = 2^(d-1) too.
C28_IntegerDecompress ==
  (pc = "returned" /\ call_op = "compress, decompress") =>
     call_ret[2].pke = DecompressInteger(call_ret[1].pke, call_msg.d)

\* C29: message embedding is Decompress_1.  For every 32-byte m, coefficient i
\* of decompress_message(m) is (y q + 2^(d-1)) div 2^d for d = 1 and
\* y = bit i of m, and that value is 0 for bit 0 and 1664 for bit 1.
C29_MessageEmbedding ==
  (pc = "returned" /\ call_op = "decompress_message") =>
     \A i \in 0..(N - 1) :
        /\ call_ret[1][i] = DecompressInteger(MessageBit(call_msg, i), 1)
        /\ call_ret[1][i] = (IF MessageBit(call_msg, i) = 0 THEN 0 ELSE 1664)
====
